---- MODULE Spec2Model ----
(***************************************************************************)
(* Model of the collaboration server in src/server/src/index.ts (the room  *)
(* variant, lines 1-1163): session registry, room store, element locks,    *)
(* drawing history and the dispatcher's handlers.                          *)
(*                                                                         *)
(* Identifiers produced by uuidv4() are modelled by counters (nextClient,  *)
(* nextRoom, nextAction): an id is never handed out twice.  One action of  *)
(* the model is one run of a handler of the single-threaded event loop, a  *)
(* message handler of a socket or a route of the HTTP server.              *)
(* `out` is the sequence of frames handed to ws.send during the last       *)
(* handler, `lastReq` the inbound event that handler processed.            *)
(* Wall-clock stamps (lastSeen, createdAt, updatedAt, timestamp) and the   *)
(* isActive flag are written but never read by the handlers; they are left *)
(* out, and the order of history entries stands for their time order.      *)
(*                                                                         *)
(* room.users and room.lockedElements are Maps: members[r] and locks[r]    *)
(* are the sequences of their entries in insertion order, the order in     *)
(* which forEach and Array.from visit them.  wss.clients is a Set in       *)
(* connection order, which is the order of the session counters.           *)
(*                                                                         *)
(* wsOpen is the set of sessions whose socket has readyState OPEN.         *)
(* BeginClose is the socket leaving OPEN, Close the 'close' handler that   *)
(* follows it.  The transport emits 'message' events of a socket only     *)
(* while it is OPEN, so a message handler runs for the sessions in wsOpen; *)
(* in between the session is still registered and still a member of its    *)
(* room, and what the handlers of other sessions send to it is dropped by  *)
(* sendToUser and by the fan-outs.                                         *)
(*                                                                         *)
(* Lengths are exact.  An identifier x >= LongId stands for a string of    *)
(* x - LongId characters, any other identifier for a short string of the   *)
(* length of its kind; elementData is kept as the length of its JSON.  The *)
(* name a connection is given, `User N` with N below 1000, is kept by the  *)
(* number of digits of N: the name -d has d digits.                        *)
(* JsonLen is the length of JSON.stringify of an outbound event, and each  *)
(* handler computes the length of the inbound message that carries its     *)
(* inputs, so both 1 MiB checks are made on the numbers the code sees.     *)
(*                                                                         *)
(* Specifications: Spec (sessions and rooms), SpecBoard (all handlers of   *)
(* one room), SpecJoin (joins of a room whose names, history and lock      *)
(* table come near the size limit), SpecHistory (one room drawn past the   *)
(* history cap), SpecFull (one room filled to its capacity), SpecDoc       *)
(* (document edits of every shape), SpecMerge (the line merge over richer  *)
(* contents), SpecLog (merges past the merge-log cap), SpecActivity (edits *)
(* past the activity cap, with reads of the activity history),             *)
(* SpecDispatch (rejected and unrecognized payloads among the handlers),   *)
(* SpecFanout (fan-outs with recipients that are not open), SpecVote (the   *)
(* vote routes with requests of every shape), SpecOrder (several drawing   *)
(* actions), SpecClient (the browser client of                             *)
(* src/client/src/utils/websocket.ts, its sockets and its reconnect        *)
(* timeouts, on its own).                                                  *)
(*                                                                         *)
(* ws.send on a socket whose readyState is OPEN hands the frame to the     *)
(* transport and does not throw, so the catch blocks around it are never   *)
(* entered.  wire lists, in sending order, the drawing frames that went    *)
(* onto the connections.                                                   *)
(*                                                                         *)
(* A document content is kept as its sequence of lines, the result of      *)
(* split('\n'); a line is a number, 0 the empty line, so <<0>> is the      *)
(* empty string.  Payload fields have the types the interfaces declare.    *)
(* activities and documents are plain objects: a project id that names a   *)
(* property of Object.prototype finds that property in them.               *)
(*                                                                         *)
(* clock is the latest reading of the server's Date.now().  A handler      *)
(* reads the clock once for every stamp it writes and once for every line  *)
(* it compares, and the clock may have advanced between two readings: adv  *)
(* gives, reading by reading, the milliseconds by which it has.  A         *)
(* timestamp string is a number: k in 1..99 is the ISO string of instant k *)
(* as toISOString() writes it, AltTime + k another spelling of the same    *)
(* instant, a negative number a string that is no date, 0 an absent        *)
(* timestamp.  The conflict test compares the strings, the merge the       *)
(* instants they parse to.                                                 *)
(***************************************************************************)
EXTENDS Integers, Sequences, FiniteSets, TLC

(* ---- bounds of the model ---- *)
MaxSessions == 2     \* connections ever accepted (Spec, SpecBoard)
MaxRooms == 2        \* rooms ever created (Spec)
MaxBoardRooms == 1   \* rooms ever created (SpecBoard)
MaxElements == 1     \* element ids a request can name
MaxNames == 1        \* display names a join-room can carry
MaxActions == 1      \* drawing actions ever created (SpecBoard)
MaxAppends == 1002   \* drawing actions ever created (SpecHistory)
MaxExtra == 2        \* connections beyond RoomCapacity - 1 (SpecFull)

MaxProjects == 1     \* project ids a request can name
MaxAuthors == 2      \* author ids a document-edit can declare
MaxLineVal == 2      \* distinct non-empty lines
MaxLines == 2        \* lines of a submitted content (SpecMerge)
MaxClock == 2        \* server clock readings
MaxReads == 6        \* readings of one handler before which the clock advances
MaxEdits == 3        \* document-edit messages (SpecDoc)
MaxMergeEdits == 2   \* document-edit messages (SpecMerge)
MaxLogEdits == 1003  \* document-edit messages (SpecLog)
MaxRingEdits == 22   \* document-edit messages (SpecActivity)
MaxLoaded == 2       \* merge-log entries loaded at start-up (SpecLog)
MaxUnknownTypes == 2 \* distinct unrecognized message types
MaxOrderActions == 3 \* drawing actions (SpecOrder)
MaxDispatchEdits == 2 \* document-edit messages (SpecDispatch, SpecFanout)
MaxFanSessions == 3  \* sessions ever connected (SpecFanout)
MaxSockets == 7      \* WebSocket objects the client ever creates (SpecClient)
MaxJoinActions == 2  \* drawing actions ever created (SpecJoin)

(* ---- constants of the program ---- *)
RoomCapacity == 20
MaxHistory == 1000
MaxMergeLogs == 1000
ActivityCap == 20
Catalog == {1, 2, 3}  \* ids of the project catalog
SizeLimit == 1048576  \* 1024 * 1024, the ceiling of a message length

NoProject == 0     \* data.projectId absent (the key 'undefined')
ProtoProject == -1 \* a project id that names a property of Object.prototype
                   \* ('constructor', '__proto__', 'toString')
NoAuthor == 0      \* data.userId absent
NoTime == 0        \* data.timestamp absent
NaN == -1          \* getTime() of a string that is no date
InvalidTime == -1  \* a timestamp string that is no date ('not-a-date')
OtherInvalidTime == -2  \* another such string ('also-not-a-date')
AltTime == 100     \* AltTime + k: the instant k written without milliseconds
NoContent == <<>>  \* data.content absent
EmptyContent == <<0>>  \* data.content = ''

NoRoom == 0        \* user.roomId = '' / data.roomId absent (falsy)
NoElement == 0     \* data.elementId absent (falsy)
NoName == 0        \* data.userName / data.name absent (falsy)
NoData == 0        \* data.elementData absent
DefaultName == 0   \* the room name 'New Room' of a create-room without a name
OneDigitName == -1    \* a generated name `User N` with N < 10 ('User 5')
TwoDigitName == -2    \* with 10 <= N < 100 ('User 50')
ThreeDigitName == -3  \* with 100 <= N ('User 944')
FreshElement == -1 \* elementId: data.elementId || uuidv4()
LongId == 10000000 \* LongId + n: an identifier string of n characters
NoSocket == 0      \* this.ws = null
NoOptions == -1    \* req.body.options absent
NoIndex == -2      \* req.body.optionIndex absent
NoVoter == 0       \* req.body.clientId absent
maxRetries == 5    \* private maxRetries = 5

ActionKinds == {"draw", "erase", "move", "resize"}

(* the names Math.floor(Math.random() * 1000) can produce, by length *)
GeneratedNames == {OneDigitName, TwoDigitName, ThreeDigitName}

(* lengths of the serialized elementData the requests of the bounded
   specifications carry: {"x":1}; 600 000 characters, of which one fits a
   frame and two do not; the longest that fits the inbound draw message *)
SmallData == 7
HalfData == 600000
NearData == SizeLimit - 30
PayloadSizes == {SmallData, NearData}

(* identifiers of nearly 1 MiB: the longest elementId a lock-element and an
   unlock-element message can carry, the longest userName of a join-room
   that names a room, the longest name of a create-room, the longest
   roomId of a join-room and the longest type *)
LockLongElement == LongId + (SizeLimit - 38)
UnlockLongElement == LongId + (SizeLimit - 40)
LongName == LongId + (SizeLimit - 82)
LongRoomName == LongId + (SizeLimit - 32)
LongRoomId == LongId + (SizeLimit - 32)
LongType == LongId + (SizeLimit - 11)

VARIABLES clients, wsOpen, users, nextClient,
          rooms, roomNames, members, history, locks, nextRoom, nextAction,
          out, lastReq, wire,
          documents, mergeLogs, activities, clock, nextLog, nextActivity,
          httpResp, votes,
          ws, sockets, retryAttempts, timers, disconnectCalled, clientOp

vars == <<clients, wsOpen, users, nextClient,
          rooms, roomNames, members, history, locks, nextRoom, nextAction,
          out, lastReq, wire,
          documents, mergeLogs, activities, clock, nextLog, nextActivity,
          httpResp, votes,
          ws, sockets, retryAttempts, timers, disconnectCalled, clientOp>>

docVars == <<documents, mergeLogs, activities, clock, nextLog, nextActivity,
             httpResp, votes>>

roomVars == <<rooms, roomNames, members, history, locks, nextRoom, nextAction, wire>>
sessionVars == <<clients, wsOpen, users, nextClient>>

(* the browser client of src/client/src/utils/websocket.ts *)
clientVars == <<ws, sockets, retryAttempts, timers, disconnectCalled, clientOp>>
serverVars == <<sessionVars, roomVars, docVars, out, lastReq>>

(* ---- helpers ---- *)
Min(a, b) == IF a < b THEN a ELSE b

RECURSIVE SortedSeq(_)
SortedSeq(S) ==
  IF S = {} THEN <<>>
  ELSE LET m == CHOOSE x \in S : \A y \in S : x <= y
       IN <<m>> \o SortedSeq(S \ {m})

Range(q) == {q[i] : i \in 1..Len(q)}

RECURSIVE Sum(_)
Sum(q) == IF q = <<>> THEN 0 ELSE Head(q) + Sum(Tail(q))

Req(kind, from, room, elem, name, size, ok) ==
  [kind |-> kind, from |-> from, room |-> room, elem |-> elem,
   name |-> name, size |-> size, ok |-> ok]

Frame(to, ev) == [to |-> to, ev |-> ev]

(* ---- message lengths ---- *)
(* The length of a string: identifiers from LongId on carry their length,
   the others have the length `short` of their kind: 36 for a uuid, 2 for
   an element id ('e1') or a chosen name ('n1'), 12 for a message type.  A
   generated name has 5 characters and its digits, 'New Room' has 8. *)
StrLen(x, short) == IF x >= LongId THEN x - LongId ELSE short

UuidLen == 36
ElementLen(e) == IF e = FreshElement THEN UuidLen ELSE StrLen(e, 2)
NameLen(n) == IF n < 0 THEN 5 - n ELSE StrLen(n, 2)
RoomNameLen(nm) == IF nm = DefaultName THEN 8 ELSE StrLen(nm, 2)
RoomIdLen(r) == StrLen(r, UuidLen)
TypeLen(ty) == StrLen(ty, 12)
KindLen(kind) ==
  CASE kind = "draw" -> 4 [] kind = "erase" -> 5 [] kind = "move" -> 4
    [] kind = "resize" -> 6
Digits(n) == IF n < 10 THEN 1 ELSE IF n < 100 THEN 2 ELSE IF n < 1000 THEN 3 ELSE 4

(* the items of a JSON array of n items with their separating commas *)
ArrayLen(itemLens) ==
  Sum(itemLens) + (IF Len(itemLens) = 0 THEN 0 ELSE Len(itemLens) - 1)

(* JSON.stringify of a DrawingAction: id, userId, userName, actionType,
   elementId and elementData (each left out when undefined), timestamp *)
ActionLen(a) ==
  162 + NameLen(a.userName) + KindLen(a.actionType)
      + (IF a.elementId = NoElement THEN 0 ELSE 15 + ElementLen(a.elementId))
      + (IF a.size = NoData THEN 0 ELSE 15 + a.size)

ActionsLen(h) == ArrayLen([i \in 1..Len(h) |-> ActionLen(h[i])])

ErrorLen(ev) ==
  CASE ev.message = "You must join a room first" -> 55
    [] ev.message = "Element is locked by user" -> 91
    [] ev.message = "Failed to lock element" -> 51
    [] ev.message = "Failed to unlock element" -> 53
    [] ev.message = "Unknown message type" -> 51 + TypeLen(ev.arg)
    [] ev.message = "Failed to process message" -> 54

(* JSON.stringify(message).length of an outbound event *)
JsonLen(ev) ==
  CASE ev.type = "welcome" -> 133 + NameLen(ev.userName)
    [] ev.type = "room-created" -> 85 + RoomNameLen(ev.roomName)
    [] ev.type = "room-list" ->
         31 + ArrayLen([i \in 1..Len(ev.rooms) |->
                          107 + RoomNameLen(ev.rooms[i].name)
                              + Digits(ev.rooms[i].userCount)])
    [] ev.type = "room-joined" -> 84 + NameLen(ev.userName)
    [] ev.type = "room-join-failed" ->
         IF ev.roomId = NoRoom THEN 60 ELSE 72 + RoomIdLen(ev.roomId)
    [] ev.type = "user-joined" -> 97 + NameLen(ev.userName) + Digits(ev.userCount)
    [] ev.type = "user-left" -> 95 + NameLen(ev.userName) + Digits(ev.userCount)
    [] ev.type = "room-state" ->
         134 + RoomNameLen(ev.roomName)
             + ArrayLen([i \in 1..Len(ev.users) |-> 55 + NameLen(ev.users[i].name)])
             + ActionsLen(ev.drawingHistory)
             + ArrayLen([i \in 1..Len(ev.lockedElements) |->
                           64 + ElementLen(ev.lockedElements[i].elementId)])
    [] ev.type \in ActionKinds -> 21 + KindLen(ev.type) + ActionLen(ev.action)
    [] ev.type = "element-locked" ->
         IF "lockedBy" \in DOMAIN ev THEN 90 + ElementLen(ev.elementId)
         ELSE 40 + ElementLen(ev.elementId)
    [] ev.type = "element-unlocked" ->
         IF "unlockedBy" \in DOMAIN ev THEN 94 + ElementLen(ev.elementId)
         ELSE 42 + ElementLen(ev.elementId)
    [] ev.type = "drawing-history" -> 39 + ActionsLen(ev.history)
    [] ev.type = "error" -> ErrorLen(ev)

(* messageStr.length > 1024 * 1024 for an outbound event *)
TooLarge(ev) == JsonLen(ev) > SizeLimit

(* the length of an inbound message: its fields in canonical JSON *)
InLen(base, fields) == base + Sum(fields)
Field(present, keyLen, valueLen) == IF present THEN keyLen + valueLen ELSE 0

(* messageStr.length > 1024 * 1024 for an inbound message *)
Oversized(len) == len > SizeLimit

sendToUser(s, ev) ==
  IF s \notin clients \/ s \notin wsOpen THEN <<>>
  ELSE IF TooLarge(ev) THEN <<>>
  ELSE <<Frame(s, ev)>>

(* a recipient the forEach of a fan-out delivers to: readyState is OPEN *)
Delivers(s) == s \in wsOpen

(* variant: the forEach ends at the first recipient that is not open *)
RECURSIVE SendEachUntilClosed(_, _)
SendEachUntilClosed(recips, ev) ==
  IF recips = <<>> THEN <<>>
  ELSE IF ~Delivers(Head(recips)) THEN <<>>
  ELSE <<Frame(Head(recips), ev)>> \o SendEachUntilClosed(Tail(recips), ev)
(* a forEach over recipients: each one is tested for readyState OPEN and
   skipped otherwise *)
RECURSIVE SendEach(_, _)
SendEach(recips, ev) ==
  IF recips = <<>> THEN <<>>
  ELSE (IF Delivers(Head(recips)) THEN <<Frame(Head(recips), ev)>> ELSE <<>>)
       \o SendEach(Tail(recips), ev)

(* broadcastToRoom over the room store rms / member table mem in force at
   the call: room.users.forEach visits the members in insertion order *)
broadcastToRoom(r, ev, rms, mem) ==
  IF r \notin rms THEN <<>>
  ELSE IF TooLarge(ev) THEN <<>>
  ELSE SendEach(mem[r], ev)

(* Map helpers: Map.set, Map.delete on a function with a finite domain *)
EmptyMap == [x \in {} |-> 0]
MapSet(m, k, v) == [x \in (DOMAIN m) \cup {k} |-> IF x = k THEN v ELSE m[x]]

(* room.users, a Map keyed by session id, as the sequence of its keys in
   insertion order: set() of a present key keeps its place *)
UsersSet(q, s) == IF s \in Range(q) THEN q ELSE Append(q, s)
UsersDelete(q, s) == SelectSeq(q, LAMBDA x : x # s)

(* room.lockedElements, a Map from element id to holder, as the sequence of
   its entries in insertion order *)
IsKey(l, e) == \E i \in 1..Len(l) : l[i].elementId = e
Holder(l, e) == (CHOOSE i \in 1..Len(l) : l[i].elementId = e)
HolderOf(l, e) == l[Holder(l, e)].userId
LocksSet(l, e, s) ==
  IF IsKey(l, e) THEN [l EXCEPT ![Holder(l, e)].userId = s]
  ELSE Append(l, [elementId |-> e, userId |-> s])
(* variant: the entry stays *)
LocksDeleteNothing(l, e) == l
LocksDelete(l, e) == SelectSeq(l, LAMBDA x : x.elementId # e)

Err(message, arg) == [type |-> "error", message |-> message, arg |-> arg]
JoinFirst == Err("You must join a room first", 0)

(* ---- initial state ---- *)
InitBase ==
  /\ clients = {}
  /\ wsOpen = {}
  /\ users = <<>>
  /\ nextClient = 1
  /\ rooms = {}
  /\ roomNames = EmptyMap
  /\ members = EmptyMap
  /\ history = EmptyMap
  /\ locks = EmptyMap
  /\ nextRoom = 1
  /\ nextAction = 1
  /\ out = <<>>
  /\ lastReq = Req("none", 0, NoRoom, NoElement, NoName, NoData, FALSE)
  /\ wire = <<>>
  /\ documents = EmptyMap
  /\ activities = EmptyMap
  /\ clock = 1
  /\ nextActivity = 1
  /\ httpResp = <<>>
  /\ ws = NoSocket
  /\ sockets = <<>>
  /\ retryAttempts = 0
  /\ timers = 0
  /\ disconnectCalled = FALSE
  /\ clientOp = "none"

(* no mergeLogs.json and no votes.json on disk: loadMergeLogs and loadVotes
   return [] *)
Init ==
  /\ InitBase
  /\ mergeLogs = <<>>
  /\ nextLog = 1
  /\ votes = <<>>

(* a vote an earlier run saved to votes.json: counts per option, and the
   client ids that have voted *)
LoadedVote(p, counts, voters) ==
  [projectId |-> p, options |-> counts, users |-> voters]

(* the contents of votes.json a start-up can find: none, a vote nobody has
   voted in, and one with a vote cast *)
LoadedVotes ==
  {<<>>, <<LoadedVote(1, <<0, 0>>, <<>>)>>, <<LoadedVote(1, <<1, 0>>, <<1>>)>>}

(* let votes = loadVotes() with a votes.json of an earlier run *)
InitVotes ==
  /\ InitBase
  /\ mergeLogs = <<>>
  /\ nextLog = 1
  /\ votes \in LoadedVotes

(* an entry an earlier run saved to mergeLogs.json *)
LoadedEntry(i) ==
  [id |-> i, projectId |-> 1, userA |-> 1, userB |-> 2,
   conflictRange |-> [start |-> 0, end |-> 0],
   resolvedBy |-> 2, timestamp |-> 0, resolutionType |-> "auto",
   userAContent |-> <<1>>, userBContent |-> <<1>>, mergedContent |-> <<1>>]

(* mergeLogs.push(...loadMergeLogs()) with up to MaxLoaded saved entries *)
InitLog ==
  /\ InitBase
  /\ \E k \in 0..MaxLoaded :
       /\ mergeLogs = [i \in 1..k |-> LoadedEntry(i)]
       /\ nextLog = k + 1
  /\ votes = <<>>

(* ---- wss.on('connection'); g is the name the random number gives ---- *)
Connect(g) ==
  LET s == nextClient IN
  /\ clients' = clients \cup {s}
  /\ wsOpen' = wsOpen \cup {s}
  /\ users' = Append(users, [name |-> g, roomId |-> NoRoom])
  /\ nextClient' = nextClient + 1
  /\ out' = <<Frame(s, [type |-> "welcome", clientId |-> s, userName |-> g])>>
  /\ lastReq' = Req("connect", s, NoRoom, NoElement, NoName, NoData, TRUE)
  /\ UNCHANGED roomVars
  /\ UNCHANGED <<docVars, clientVars>>

(* the socket leaves readyState OPEN; the close handler has not run yet, so
   the session stays registered and in its room, and no message of it is
   handled any more *)
BeginClose(s) ==
  /\ s \in wsOpen
  /\ wsOpen' = wsOpen \ {s}
  /\ out' = <<>>
  /\ lastReq' = Req("closing", s, NoRoom, NoElement, NoName, NoData, TRUE)
  /\ UNCHANGED <<clients, users, nextClient, roomVars>>
  /\ UNCHANGED <<docVars, clientVars>>

(* ---- ws.on('message'): payloads the dispatcher does not dispatch ---- *)
(* an empty message, one longer than 1 MiB, one JSON.parse rejects, and a
   parsed value that is no object or has no type *)
RejectedKinds == {"empty", "oversized", "unparseable", "no-type"}

(* variant: the rejection is announced to every session *)
RejectReplyToAll(s, k) ==
  SendEach(SortedSeq(clients), Err("Failed to process message", 0))
(* what the dispatcher sends for a rejected payload: only the catch block of
   a failed JSON.parse answers *)
RejectReply(s, k) ==
  IF k = "unparseable" THEN sendToUser(s, Err("Failed to process message", 0))
  ELSE <<>>

(* the early returns and the catch block of the message handler *)
Rejected(s, k) ==
  /\ out' = RejectReply(s, k)
  /\ lastReq' = [kind |-> "rejected", from |-> s, room |-> NoRoom,
                 elem |-> NoElement, name |-> NoName, size |-> NoData,
                 ok |-> FALSE, why |-> k]
  /\ UNCHANGED <<sessionVars, roomVars, docVars, clientVars>>

BadMessage(s, k) ==
  /\ s \in wsOpen
  /\ Rejected(s, k)

(* ---- case 'create-room' / createRoom ---- *)
CreateRoom(s, nm) ==
  LET r == nextRoom
      len == InLen(22, <<Field(nm # NoName, 10, RoomNameLen(nm))>>)
  IN
  /\ s \in wsOpen
  /\ IF Oversized(len) THEN Rejected(s, "oversized")
     ELSE
     /\ rooms' = rooms \cup {r}
     /\ roomNames' = MapSet(roomNames, r, nm)
     /\ members' = MapSet(members, r, <<>>)
     /\ history' = MapSet(history, r, <<>>)
     /\ locks' = MapSet(locks, r, <<>>)
     /\ nextRoom' = nextRoom + 1
     /\ out' = sendToUser(s, [type |-> "room-created", roomId |-> r, roomName |-> nm])
     /\ lastReq' = Req("create-room", s, r, NoElement, nm, NoData, TRUE)
     /\ UNCHANGED <<sessionVars, nextAction, wire>>
     /\ UNCHANGED <<docVars, clientVars>>

(* ---- case 'get-rooms' ---- *)
RoomList ==
  LET ids == SortedSeq(rooms)
  IN [type |-> "room-list",
      rooms |-> [i \in 1..Len(ids) |->
                   [id |-> ids[i], name |-> roomNames[ids[i]],
                    userCount |-> Len(members[ids[i]])]]]

GetRooms(s) ==
  /\ s \in wsOpen
  /\ out' = sendToUser(s, RoomList)
  /\ lastReq' = Req("get-rooms", s, NoRoom, NoElement, NoName, NoData, TRUE)
  /\ UNCHANGED <<sessionVars, roomVars, docVars, clientVars>>

(* ---- addUserToRoom ---- *)
(* variant: the capacity test is off by one *)
RoomIsFullAbove(r) == Len(members[r]) > RoomCapacity

RoomIsFull(r) == Len(members[r]) >= RoomCapacity

CanJoin(r) == r \in rooms /\ ~RoomIsFull(r)

(* variant: the snapshot is taken of the member list only *)
RoomStateMembersOnly(r, mem, usrs) ==
  [type |-> "room-state", roomId |-> r, roomName |-> roomNames[r],
   users |-> [i \in 1..Len(mem[r]) |->
                [id |-> mem[r][i], name |-> usrs[mem[r][i]].name]],
   drawingHistory |-> <<>>,
   lockedElements |-> <<>>]

RoomState(r, mem, usrs) ==
  [type |-> "room-state", roomId |-> r, roomName |-> roomNames[r],
   users |-> [i \in 1..Len(mem[r]) |->
                [id |-> mem[r][i], name |-> usrs[mem[r][i]].name]],
   drawingHistory |-> history[r],
   lockedElements |-> locks[r]]

(* variant: the reply is sent before the snapshot *)
JoinFramesReplyFirst(s, r, userName, mem1, usrs1) ==
  broadcastToRoom(r, [type |-> "user-joined", userId |-> s,
                      userName |-> userName,
                      userCount |-> Len(mem1[r])], rooms, mem1)
  \o sendToUser(s, [type |-> "room-joined", roomId |-> r, userName |-> userName])
  \o sendToUser(s, RoomState(r, mem1, usrs1))

(* the frames of a successful join, in the order the code sends them: the
   broadcast and the snapshot of addUserToRoom, then the reply of the case *)
JoinFrames(s, r, userName, mem1, usrs1) ==
  broadcastToRoom(r, [type |-> "user-joined", userId |-> s,
                      userName |-> userName,
                      userCount |-> Len(mem1[r])], rooms, mem1)
  \o sendToUser(s, RoomState(r, mem1, usrs1))
  \o sendToUser(s, [type |-> "room-joined", roomId |-> r, userName |-> userName])

(* ---- case 'join-room' ---- *)
JoinRoom(s, r, n) ==
  LET userName == IF n = NoName THEN users[s].name ELSE n
      named == [users EXCEPT ![s].name = userName]
      mem1 == [members EXCEPT ![r] = UsersSet(@, s)]
      usrs1 == [named EXCEPT ![s].roomId = r]
      len == InLen(20, <<Field(r # NoRoom, 12, RoomIdLen(r)),
                         Field(n # NoName, 14, NameLen(n))>>)
  IN
  /\ s \in wsOpen
  /\ IF Oversized(len) THEN Rejected(s, "oversized")
     ELSE
     /\ IF CanJoin(r)
        THEN /\ members' = mem1
             /\ users' = usrs1
             /\ out' = JoinFrames(s, r, userName, mem1, usrs1)
        ELSE /\ members' = members
             /\ users' = named
             /\ out' = sendToUser(s, [type |-> "room-join-failed", roomId |-> r])
     /\ lastReq' = Req("join-room", s, r, NoElement, n, NoData, CanJoin(r))
     /\ UNCHANGED <<clients, wsOpen, nextClient, wire, rooms, roomNames,
                    history, locks, nextRoom, nextAction>>
     /\ UNCHANGED <<docVars, clientVars>>

(* ---- removeUserFromRoom ---- *)
CanRemove(s) == s \in clients /\ users[s].roomId \in rooms

(* variant: the emptied room is kept *)
DeleteNever(r, left) == rooms

(* the room is deleted when the removal leaves it empty *)
DeleteIfEmpty(r, left) == IF left = <<>> THEN rooms \ {r} ELSE rooms

removeUserFromRoom(s) ==
  LET r == users[s].roomId
      left == UsersDelete(members[r], s)
      mem1 == [members EXCEPT ![r] = left]
      rms1 == DeleteIfEmpty(r, left)
  IN
  IF CanRemove(s)
  THEN /\ rooms' = rms1
       /\ roomNames' = [x \in rms1 |-> roomNames[x]]
       /\ members' = [x \in rms1 |-> mem1[x]]
       /\ history' = [x \in rms1 |-> history[x]]
       /\ locks' = [x \in rms1 |-> locks[x]]
       /\ out' = broadcastToRoom(r, [type |-> "user-left", userId |-> s,
                                      userName |-> users[s].name,
                                      userCount |-> Len(left)],
                                 rooms, mem1)
  ELSE /\ UNCHANGED <<rooms, roomNames, members, history, locks>>
       /\ out' = <<>>

(* ---- case 'leave-room' ---- *)
LeaveRoom(s) ==
  /\ s \in wsOpen
  /\ removeUserFromRoom(s)
  /\ lastReq' = Req("leave-room", s, users[s].roomId, NoElement, NoName,
                    NoData, CanRemove(s))
  /\ UNCHANGED <<sessionVars, nextRoom, nextAction, wire>>
  /\ UNCHANGED <<docVars, clientVars>>

(* ---- ws.on('close') ---- *)
Close(s) ==
  /\ s \in clients
  /\ removeUserFromRoom(s)
  /\ clients' = clients \ {s}
  /\ wsOpen' = wsOpen \ {s}
  /\ lastReq' = Req("close", s, users[s].roomId, NoElement, NoName,
                    NoData, CanRemove(s))
  /\ UNCHANGED <<users, nextClient, nextRoom, nextAction, wire>>
  /\ UNCHANGED <<docVars, clientVars>>

(* ---- lockElement ---- *)
IsLocked(r, e) == IsKey(locks[r], e)

(* variant: the holder test is skipped, Map.set overwrites *)
CanLockNoHolderTest(r, e) == r \in rooms

CanLock(r, e) == r \in rooms /\ ~IsLocked(r, e)

(* a lock-element request and the lock table of its room when it arrived *)
LockReq(s, r, e, ok) ==
  [kind |-> "lock-element", from |-> s, room |-> r, elem |-> e,
   name |-> NoName, size |-> NoData, ok |-> ok,
   before |-> IF r \in DOMAIN locks THEN locks[r] ELSE <<>>]

(* ---- case 'lock-element' ---- *)
LockElement(s, e) ==
  LET r == users[s].roomId
      len == InLen(23, <<Field(e # NoElement, 15, ElementLen(e))>>)
  IN
  /\ s \in wsOpen
  /\ IF Oversized(len) THEN Rejected(s, "oversized")
     ELSE
     /\ IF r = NoRoom
        THEN /\ out' = sendToUser(s, JoinFirst)
             /\ locks' = locks
        ELSE IF e = NoElement
        THEN /\ out' = <<>>
             /\ locks' = locks
        ELSE IF CanLock(r, e)
        THEN /\ locks' = [locks EXCEPT ![r] = LocksSet(@, e, s)]
             /\ out' = broadcastToRoom(r, [type |-> "element-locked", elementId |-> e,
                                            lockedBy |-> s], rooms, members)
                       \o sendToUser(s, [type |-> "element-locked", elementId |-> e])
        ELSE /\ locks' = locks
             /\ out' = sendToUser(s, Err("Failed to lock element", 0))
     /\ lastReq' = LockReq(s, r, e, r # NoRoom /\ e # NoElement /\ CanLock(r, e))
     /\ UNCHANGED <<sessionVars, rooms, roomNames, members, history, nextRoom,
                    nextAction, wire>>
     /\ UNCHANGED <<docVars, clientVars>>

(* ---- unlockElement ---- *)
(* variant: any requester may unlock a held element *)
CanUnlockAnyRequester(r, e, s) == r \in rooms /\ IsLocked(r, e)

CanUnlock(r, e, s) == r \in rooms /\ IsLocked(r, e) /\ HolderOf(locks[r], e) = s

(* ---- case 'unlock-element' ---- *)
UnlockElement(s, e) ==
  LET r == users[s].roomId
      len == InLen(25, <<Field(e # NoElement, 15, ElementLen(e))>>)
  IN
  /\ s \in wsOpen
  /\ IF Oversized(len) THEN Rejected(s, "oversized")
     ELSE
     /\ IF r = NoRoom
        THEN /\ out' = sendToUser(s, JoinFirst)
             /\ locks' = locks
        ELSE IF e = NoElement
        THEN /\ out' = <<>>
             /\ locks' = locks
        ELSE IF CanUnlock(r, e, s)
        THEN /\ locks' = [locks EXCEPT ![r] = LocksDelete(@, e)]
             /\ out' = broadcastToRoom(r, [type |-> "element-unlocked", elementId |-> e,
                                            unlockedBy |-> s], rooms, members)
                       \o sendToUser(s, [type |-> "element-unlocked", elementId |-> e])
        ELSE /\ locks' = locks
             /\ out' = sendToUser(s, Err("Failed to unlock element", 0))
     /\ lastReq' = Req("unlock-element", s, r, e, NoName, NoData,
                       r # NoRoom /\ e # NoElement /\ CanUnlock(r, e, s))
     /\ UNCHANGED <<sessionVars, rooms, roomNames, members, history, nextRoom,
                    nextAction, wire>>
     /\ UNCHANGED <<docVars, clientVars>>

(* ---- addDrawingAction ---- *)
(* variant: the splice keeps the front and drops the newest entries *)
TrimHistoryKeepOldest(h) ==
  IF Len(h) > MaxHistory THEN SubSeq(h, 1, MaxHistory) ELSE h

TrimHistory(h) ==
  IF Len(h) > MaxHistory THEN SubSeq(h, Len(h) - MaxHistory + 1, Len(h)) ELSE h

(* variant: the action is put in front of the history *)
addDrawingActionFront(r, action) ==
  IF r \in rooms
  THEN [history EXCEPT ![r] = TrimHistory(<<action>> \o @)]
  ELSE history
addDrawingAction(r, action) ==
  IF r \in rooms
  THEN [history EXCEPT ![r] = TrimHistory(Append(@, action))]
  ELSE history

(* variant: the holder's own actions pass the lock check *)
LockBlocksOthersOnly(r, e, s) ==
  e # NoElement /\ r \in rooms /\ IsLocked(r, e) /\ HolderOf(locks[r], e) # s

(* the lock check of the drawing cases; the requester s plays no part in it *)
LockBlocks(r, e, s) == e # NoElement /\ r \in rooms /\ IsLocked(r, e)

(* the drawing frames of one handler as they go onto the connections: who
   receives which action *)
IsDrawFrame(f) == f.ev.type \in ActionKinds

Wired(o, r) ==
  LET d == SelectSeq(o, IsDrawFrame)
  IN [i \in 1..Len(d) |-> [to |-> d[i].to, room |-> r, id |-> d[i].ev.action.id]]

(* elementId of the recorded action: only 'draw' substitutes a fresh id *)
ActionElement(kind, e) ==
  IF kind = "draw" /\ e = NoElement THEN FreshElement ELSE e

(* ---- case 'draw' / 'erase' / 'move' / 'resize' ---- *)
Draw(s, kind, e, sz) ==
  LET r == users[s].roomId
      action == [id |-> nextAction, userId |-> s, userName |-> users[s].name,
                 actionType |-> kind, elementId |-> ActionElement(kind, e),
                 size |-> sz]
      len == InLen(11 + KindLen(kind),
                   <<Field(e # NoElement, 15, ElementLen(e)),
                     Field(sz # NoData, 15, sz)>>)
  IN
  /\ s \in wsOpen
  /\ IF Oversized(len) THEN Rejected(s, "oversized")
     ELSE
     /\ IF r = NoRoom
        THEN /\ out' = sendToUser(s, JoinFirst)
             /\ UNCHANGED <<history, nextAction>>
        ELSE IF LockBlocks(r, e, s)
        THEN /\ out' = sendToUser(s, Err("Element is locked by user",
                                         HolderOf(locks[r], e)))
             /\ UNCHANGED <<history, nextAction>>
        ELSE /\ history' = addDrawingAction(r, action)
             /\ nextAction' = nextAction + 1
             /\ out' = broadcastToRoom(r, [type |-> kind, action |-> action],
                                       rooms, members)
     /\ wire' = wire \o Wired(out', r)
     /\ lastReq' = Req(kind, s, r, e, NoName, sz, r # NoRoom /\ ~LockBlocks(r, e, s))
     /\ UNCHANGED <<sessionVars, rooms, roomNames, members, locks, nextRoom>>
     /\ UNCHANGED <<docVars, clientVars>>

(* ---- case 'get-drawing-history' ---- *)
GetDrawingHistory(s) ==
  LET r == users[s].roomId IN
  /\ s \in wsOpen
  /\ out' = IF r = NoRoom THEN sendToUser(s, JoinFirst)
            ELSE IF r \in rooms
            THEN sendToUser(s, [type |-> "drawing-history", history |-> history[r]])
            ELSE <<>>
  /\ lastReq' = Req("get-drawing-history", s, r, NoElement, NoName, NoData,
                    r \in rooms)
  /\ UNCHANGED <<sessionVars, roomVars, docVars, clientVars>>

(* variant: the error goes to every session *)
UnknownReplyToAll(s, ty) ==
  SendEach(SortedSeq(clients), Err("Unknown message type", ty))
(* the default case: an error that echoes data.type *)
UnknownReply(s, ty) == sendToUser(s, Err("Unknown message type", ty))

(* ---- default case of the switch; ty numbers the unrecognized types ---- *)
UnknownType(s, ty) ==
  /\ s \in wsOpen
  /\ IF Oversized(InLen(11, <<TypeLen(ty)>>)) THEN Rejected(s, "oversized")
     ELSE
     /\ out' = UnknownReply(s, ty)
     /\ lastReq' = [kind |-> "unknown", from |-> s, room |-> NoRoom,
                    elem |-> NoElement, name |-> NoName, size |-> NoData,
                    ok |-> FALSE, ty |-> ty]
     /\ UNCHANGED <<sessionVars, roomVars, docVars, clientVars>>

(* ---- documents ---- *)
(* !x of the payload validation *)
FalsyContent(c) == c = NoContent \/ c = EmptyContent

ValidEdit(p, a, c, t) ==
  p # NoProject /\ a # NoAuthor /\ ~FalsyContent(c) /\ t # NoTime

(* variant: either difference alone is a conflict *)
ConflictDetectedEither(doc, a, t) ==
  doc.lastModified # t \/ doc.lastModifiedBy # a
(* the conflict test of handleDocumentConflict: !== on the two strings *)
ConflictDetected(doc, a, t) == doc.lastModified # t /\ doc.lastModifiedBy # a

(* new Date(string).getTime(): the instant a timestamp string names *)
ParseTime(t) == IF t < 0 THEN NaN ELSE IF t >= AltTime THEN t - AltTime ELSE t

(* variant: a stored time equal to the clock counts as older *)
NewerOrEqual(now, lastModified) ==
  ParseTime(lastModified) # NaN /\ now >= ParseTime(lastModified)
(* userLineTimestamp > currentLineTimestamp; a comparison with NaN is false *)
Newer(now, lastModified) ==
  ParseTime(lastModified) # NaN /\ now > ParseTime(lastModified)

(* activities[projectId] and documents[projectId] on a plain object find
   the property Object.prototype defines under that name: a function or an
   object, which is truthy and has no push *)
Inherited(p) == p = ProtoProject

(* the k-th reading of the clock in a handler: adv[j] is how far the clock
   has advanced between the reading before and the j-th reading *)
Reading(adv, k) == clock + Sum(SubSeq(adv, 1, Min(k, Len(adv))))

(* userLines.forEach of mergeDocuments, from index i on, after k readings of
   the clock: a line that differs from the stored one reads the clock anew *)
RECURSIVE MergeFrom(_, _, _, _, _, _)
MergeFrom(merged, userLines, i, lastModified, adv, k) ==
  IF i > Len(userLines) THEN merged
  ELSE IF i > Len(merged)
  THEN MergeFrom(Append(merged, userLines[i]), userLines, i + 1,
                 lastModified, adv, k)
  ELSE IF merged[i] = userLines[i]
  THEN MergeFrom(merged, userLines, i + 1, lastModified, adv, k)
  ELSE MergeFrom(IF Newer(Reading(adv, k + 1), lastModified)
                 THEN [merged EXCEPT ![i] = userLines[i]]
                 ELSE merged,
                 userLines, i + 1, lastModified, adv, k + 1)

(* the readings of the clock the forEach makes: one for each line within the
   stored lines that differs from the stored line *)
LineReadings(currentLines, userLines) ==
  Cardinality({j \in 1..Min(Len(currentLines), Len(userLines)) :
                 currentLines[j] # userLines[j]})

Max(a, b) == IF a > b THEN a ELSE b

(* variant: the result is cut to the length of the incoming content *)
MergeLinesTruncated(currentLines, userLines, lastModified, adv, k) ==
  SubSeq(MergeFrom(currentLines, userLines, 1, lastModified, adv, k),
         1, Len(userLines))
(* variant: incoming lines beyond the stored length are not appended *)
MergeLinesNoAppend(currentLines, userLines, lastModified, adv, k) ==
  MergeFrom(currentLines,
            SubSeq(userLines, 1, Min(Len(userLines), Len(currentLines))),
            1, lastModified, adv, k)
MergeLines(currentLines, userLines, lastModified, adv, k) ==
  MergeFrom(currentLines, userLines, 1, lastModified, adv, k)

(* variant: the two contributors are swapped *)
MergeLogEntrySwapped(p, a, currentContent, userContent, mergedContent, stamp) ==
  [id |-> nextLog, projectId |-> p,
   userA |-> a, userB |-> documents[p].lastModifiedBy,
   conflictRange |-> [start |-> 0,
                      end |-> Max(Len(currentContent), Len(userContent)) - 1],
   resolvedBy |-> a, timestamp |-> stamp, resolutionType |-> "auto",
   userAContent |-> userContent, userBContent |-> currentContent,
   mergedContent |-> mergedContent]
MergeLogEntry(p, a, currentContent, userContent, mergedContent, stamp) ==
  [id |-> nextLog, projectId |-> p,
   userA |-> documents[p].lastModifiedBy, userB |-> a,
   conflictRange |-> [start |-> 0,
                      end |-> Max(Len(currentContent), Len(userContent)) - 1],
   resolvedBy |-> a, timestamp |-> stamp, resolutionType |-> "auto",
   userAContent |-> currentContent, userBContent |-> userContent,
   mergedContent |-> mergedContent]

(* variant: the splice keeps the oldest entries *)
TrimLogsKeepOldest(l) ==
  IF Len(l) > MaxMergeLogs THEN SubSeq(l, 1, MaxMergeLogs) ELSE l
(* saveMergeLogs: the splice that keeps the newest entries *)
TrimLogs(l) ==
  IF Len(l) > MaxMergeLogs THEN SubSeq(l, Len(l) - MaxMergeLogs + 1, Len(l)) ELSE l

(* mergeDocuments after k readings of the clock: [content, logged, reads];
   the input guard falls back to the current content without a log entry
   and without a reading, otherwise the lines that differ read the clock and
   then the log entry does; reads counts the readings made so far *)
mergeDocuments(currentContent, userContent, a, p, adv, k) ==
  IF FalsyContent(currentContent) \/ FalsyContent(userContent)
     \/ a = NoAuthor \/ p = NoProject
  THEN [content |-> currentContent, logged |-> FALSE, reads |-> k]
  ELSE [content |-> MergeLines(currentContent, userContent,
                               documents[p].lastModified, adv, k),
        logged |-> TRUE,
        reads |-> k + LineReadings(currentContent, userContent) + 1]

(* variant: the requester is left out *)
MergeRecipientsOthers(s) == wsOpen \ {s}
(* recipients of the document-merged fan-out over wss.clients *)
MergeRecipients(s) == wsOpen

DocumentMerged(p, content, version, a, stamp) ==
  [type |-> "document-merged", projectId |-> p, content |-> content,
   version |-> version, mergedBy |-> a, mergeTimestamp |-> stamp]

(* wss.clients.forEach of handleDocumentConflict after k readings of the
   clock: the message of each open client is built with a reading of its
   own, then sent in a try block *)
RECURSIVE SendMerged(_, _, _, _)
SendMerged(recips, ev, adv, k) ==
  IF recips = <<>> THEN <<>>
  ELSE IF Head(recips) \notin wsOpen THEN SendMerged(Tail(recips), ev, adv, k)
  ELSE (IF Delivers(Head(recips))
        THEN <<Frame(Head(recips),
                     [ev EXCEPT !.mergeTimestamp = Reading(adv, k + 1)])>>
        ELSE <<>>)
       \o SendMerged(Tail(recips), ev, adv, k + 1)

EditPath(p, a, c, t) ==
  IF Inherited(p) THEN "threw"
  ELSE IF ~ValidEdit(p, a, c, t) THEN "invalid"
  ELSE IF p \notin DOMAIN documents THEN "create"
  ELSE IF ~ConflictDetected(documents[p], a, t) THEN "sequential"
  ELSE "merge"

(* variant: an edit leaves the version alone *)
NextVersionSame(doc) == doc.version
(* version written by an edit on an existing document *)
NextVersion(doc) == doc.version + 1

(* no document stored under a project id *)
NoDocument ==
  [content |-> NoContent, version |-> 0, lastModified |-> NoTime,
   lastModifiedBy |-> NoAuthor]

StoredDoc(p) == IF p \in DOMAIN documents THEN documents[p] ELSE NoDocument

(* variant: the write is stamped with the server clock *)
WrittenDocServerTime(c, version, t, a) ==
  [content |-> c, version |-> version, lastModified |-> clock,
   lastModifiedBy |-> a]
(* the document written on the no-conflict paths *)
WrittenDoc(c, version, t, a) ==
  [content |-> c, version |-> version, lastModified |-> t,
   lastModifiedBy |-> a]

(* the readings of the clock one document-edit makes: the activity stamp,
   and on the merge path those of mergeDocuments, the new lastModified and
   one mergeTimestamp for each open client *)
ReadingsMade(s, p, a, c, t) ==
  IF EditPath(p, a, c, t) # "merge" THEN 1
  ELSE mergeDocuments(documents[p].content, c, a, p, <<>>, 1).reads + 1
       + Cardinality(MergeRecipients(s))

(* ---- handleDocumentConflict, entered after one reading of the clock ---- *)
handleDocumentConflict(s, p, a, c, t, adv) ==
  LET path == EditPath(p, a, c, t) IN
  CASE path = "invalid" ->
         /\ UNCHANGED <<documents, mergeLogs, nextLog>>
         /\ out' = <<>>
    [] path = "create" ->
         /\ documents' = MapSet(documents, p, WrittenDoc(c, 1, t, a))
         /\ UNCHANGED <<mergeLogs, nextLog>>
         /\ out' = <<>>
    [] path = "sequential" ->
         /\ documents' = [documents EXCEPT ![p] =
                            WrittenDoc(c, NextVersion(@), t, a)]
         /\ UNCHANGED <<mergeLogs, nextLog>>
         /\ out' = <<>>
    [] path = "merge" ->
         LET m == mergeDocuments(documents[p].content, c, a, p, adv, 1)
             version == NextVersion(documents[p])
         IN /\ documents' = [documents EXCEPT ![p] =
                               [content |-> m.content, version |-> version,
                                lastModified |-> Reading(adv, m.reads + 1),
                                lastModifiedBy |-> a]]
            /\ IF m.logged
               THEN /\ mergeLogs' = TrimLogs(Append(mergeLogs,
                                       MergeLogEntry(p, a, documents[p].content,
                                                     c, m.content,
                                                     Reading(adv, m.reads))))
                    /\ nextLog' = nextLog + 1
               ELSE UNCHANGED <<mergeLogs, nextLog>>
            /\ out' = SendMerged(SortedSeq(MergeRecipients(s)),
                                 DocumentMerged(p, m.content, version, a, 0),
                                 adv, m.reads + 1)

(* the activity ring of a project after one more entry *)
PushActivity(ring, entry) ==
  IF Len(ring) + 1 > ActivityCap THEN Tail(Append(ring, entry))
  ELSE Append(ring, entry)

(* a document-edit, the document it found and the clock readings it made *)
DocReq(s, p, a, c, t, path, adv) ==
  [kind |-> "document-edit", from |-> s, room |-> NoRoom, elem |-> NoElement,
   name |-> NoName, size |-> NoData, ok |-> path \notin {"invalid", "threw"},
   project |-> p, author |-> a, content |-> c, ts |-> t, path |-> path,
   prev |-> StoredDoc(p),
   reads |-> [k \in 1..ReadingsMade(s, p, a, c, t) |-> Reading(adv, k)]]

(* ---- case 'document-edit' ---- *)
(* under an inherited project id the ring found is no array: push throws
   after the activity, its uuid and its stamp have been made, and the catch
   block of the message handler answers *)
DocumentEdit(s, p, a, c, t, adv) ==
  LET ring == IF p \in DOMAIN activities THEN activities[p] ELSE <<>>
      entry == [id |-> nextActivity, projectId |-> p, userId |-> s,
                userName |-> users[s].name, content |-> c,
                timestamp |-> Reading(adv, 1)]
  IN
  /\ s \in wsOpen
  /\ nextActivity' = nextActivity + 1
  /\ IF Inherited(p)
     THEN /\ UNCHANGED <<activities, documents, mergeLogs, nextLog>>
          /\ out' = sendToUser(s, Err("Failed to process message", 0))
     ELSE /\ activities' = MapSet(activities, p, PushActivity(ring, entry))
          /\ handleDocumentConflict(s, p, a, c, t, adv)
  /\ clock' = Reading(adv, ReadingsMade(s, p, a, c, t))
  /\ lastReq' = DocReq(s, p, a, c, t, EditPath(p, a, c, t), adv)
  /\ UNCHANGED <<clientVars, sessionVars, roomVars, httpResp, votes>>

(* Array.prototype.reverse *)
RECURSIVE Reverse(_)
Reverse(q) == IF q = <<>> THEN <<>> ELSE Append(Reverse(Tail(q)), Head(q))

(* what the activity read leaves in the store: reverse() works in place *)
RingAfterRead(ring) == Reverse(ring)

(* ---- GET /api/activities/:projectId ---- *)
GetActivities(p) ==
  /\ IF p \notin Catalog
     THEN /\ httpResp' = [status |-> 404, body |-> <<>>]
          /\ activities' = activities
     ELSE IF p \notin DOMAIN activities
     THEN /\ httpResp' = [status |-> 200, body |-> <<>>]
          /\ activities' = activities
     ELSE /\ httpResp' = [status |-> 200, body |-> Reverse(activities[p])]
          /\ activities' = [activities EXCEPT ![p] = RingAfterRead(@)]
  /\ out' = <<>>
  /\ lastReq' = [kind |-> "get-activities", from |-> 0, room |-> NoRoom,
                 elem |-> NoElement, name |-> NoName, size |-> NoData,
                 ok |-> p \in Catalog, project |-> p]
  /\ UNCHANGED <<clientVars, sessionVars, roomVars, documents, mergeLogs, clock, nextLog,
                 nextActivity, votes>>

(* ---- the vote routes ---- *)
(* votes.find(vote => vote.projectId === projectId): the first such vote *)
HasVote(p) == \E i \in 1..Len(votes) : votes[i].projectId = p
VoteAt(p) ==
  CHOOSE i \in 1..Len(votes) :
    /\ votes[i].projectId = p
    /\ \A j \in 1..(i - 1) : votes[j].projectId # p

(* wss.clients.forEach of the vote routes: every socket of the server in
   connection order, sent to when its readyState is OPEN *)
VoteFanout(ev) == SendEach(SortedSeq(clients), ev)

VoteReq(kind, p, status) ==
  [kind |-> kind, from |-> 0, room |-> NoRoom, elem |-> NoElement,
   name |-> NoName, size |-> NoData, ok |-> status \in {200, 201},
   project |-> p, status |-> status]

(* ---- POST /api/votes/:projectId; n options, or none in the body ---- *)
CreateVote(p, n) ==
  LET newVote == [projectId |-> p, options |-> [i \in 1..n |-> 0],
                  users |-> <<>>]
      stored == p \in Catalog /\ ~HasVote(p) /\ n # NoOptions
      status == IF p \notin Catalog THEN 404
                ELSE IF HasVote(p) THEN 400
                ELSE IF n = NoOptions THEN 500
                ELSE 201
  IN
  /\ votes' = IF stored THEN Append(votes, newVote) ELSE votes
  /\ out' = IF stored
            THEN VoteFanout([type |-> "vote-created", data |-> newVote])
            ELSE <<>>
  /\ httpResp' = [status |-> status,
                  body |-> IF status = 201 THEN <<newVote>> ELSE <<>>]
  /\ lastReq' = VoteReq("create-vote", p, status)
  /\ UNCHANGED <<clientVars, sessionVars, roomVars, documents, mergeLogs,
                 activities, clock, nextLog, nextActivity>>

(* ---- POST /api/votes/:projectId/submit ---- *)
(* an absent optionIndex passes both range tests and fails at
   options[undefined].count before anything is written *)
SubmitVote(p, c, i) ==
  LET v == votes[VoteAt(p)]
      counted == /\ HasVote(p)
                 /\ c \notin Range(v.users)
                 /\ i # NoIndex /\ i >= 0 /\ i < Len(v.options)
      v1 == [v EXCEPT !.options[i + 1] = @ + 1, !.users = Append(@, c)]
      status == IF ~HasVote(p) THEN 404
                ELSE IF c \in Range(v.users) THEN 400
                ELSE IF i # NoIndex /\ (i < 0 \/ i >= Len(v.options)) THEN 400
                ELSE IF i = NoIndex THEN 500
                ELSE 200
  IN
  /\ votes' = IF counted THEN [votes EXCEPT ![VoteAt(p)] = v1] ELSE votes
  /\ out' = IF counted
            THEN VoteFanout([type |-> "vote-updated", data |-> v1])
            ELSE <<>>
  /\ httpResp' = [status |-> status,
                  body |-> IF status = 200 THEN <<v1>> ELSE <<>>]
  /\ lastReq' = VoteReq("submit-vote", p, status)
  /\ UNCHANGED <<clientVars, sessionVars, roomVars, documents, mergeLogs,
                 activities, clock, nextLog, nextActivity>>

(* submitted contents: absent, or up to n lines *)
RECURSIVE LinesUpTo(_)
LinesUpTo(n) ==
  IF n = 0 THEN {<<>>}
  ELSE LinesUpTo(n - 1)
       \cup {Append(q, v) : q \in {x \in LinesUpTo(n - 1) : Len(x) = n - 1},
                            v \in 0..MaxLineVal}

(* ---- the client: WebSocketClient of utils/websocket.ts ---- *)
(* sockets[k] is the readyState of the k-th WebSocket object the client has
   created; the handlers connect() attached to it stay attached for its
   whole life, whether this.ws still points to it or not. timers counts the
   pending reconnect timeouts; their delay decides when they fire, not
   whether. disconnectCalled records that the application has called
   disconnect() and has not called connect() since; clientOp names the
   last client step. *)

(* variant: the retry test lets the counter pass the maximum *)
CanRetryInclusive(n) == n <= maxRetries

(* if (this.retryAttempts < this.maxRetries) *)
CanRetry(n) == n < maxRetries

(* the body of connect(): a new socket in state CONNECTING becomes this.ws *)
NewSocket ==
  /\ sockets' = Append(sockets, "connecting")
  /\ ws' = Len(sockets) + 1

(* the application calls connect() *)
ClientConnect ==
  /\ NewSocket
  /\ disconnectCalled' = FALSE
  /\ clientOp' = "connect"
  /\ UNCHANGED <<retryAttempts, timers>>
  /\ UNCHANGED serverVars

(* a reconnect timeout fires: this.connect() *)
Reconnect ==
  /\ timers > 0
  /\ timers' = timers - 1
  /\ NewSocket
  /\ clientOp' = "reconnect"
  /\ UNCHANGED <<retryAttempts, disconnectCalled>>
  /\ UNCHANGED serverVars

(* ws.onopen of socket k *)
OnOpen(k) ==
  /\ sockets[k] = "connecting"
  /\ sockets' = [sockets EXCEPT ![k] = "open"]
  /\ retryAttempts' = 0
  /\ clientOp' = "open"
  /\ UNCHANGED <<ws, timers, disconnectCalled>>
  /\ UNCHANGED serverVars

(* the peer's close frame arrives on an open socket: readyState is CLOSING
   until the close event *)
PeerClose(k) ==
  /\ sockets[k] = "open"
  /\ sockets' = [sockets EXCEPT ![k] = "closing"]
  /\ clientOp' = "peer-close"
  /\ UNCHANGED <<ws, retryAttempts, timers, disconnectCalled>>
  /\ UNCHANGED serverVars

(* ws.onclose of socket k: the connection attempt failed, the connection
   was lost without a close frame (the socket goes from OPEN to CLOSED in
   the task of the close event), or the closing handshake the peer or
   close() started has completed *)
OnClose(k) ==
  /\ sockets[k] \in {"connecting", "open", "closing"}
  /\ sockets' = [sockets EXCEPT ![k] = "closed"]
  /\ IF CanRetry(retryAttempts)
     THEN /\ retryAttempts' = retryAttempts + 1
          /\ timers' = timers + 1
     ELSE UNCHANGED <<retryAttempts, timers>>
  /\ clientOp' = "close"
  /\ UNCHANGED <<ws, disconnectCalled>>
  /\ UNCHANGED serverVars

(* WebSocket.close(): starts the closing handshake of a socket that is
   connecting or open, and does nothing to one that is closing or closed *)
CloseSocket(st) == IF st \in {"connecting", "open"} THEN "closing" ELSE st

(* the application calls disconnect() *)
ClientDisconnect ==
  /\ IF ws # NoSocket
     THEN /\ sockets' = [sockets EXCEPT ![ws] = CloseSocket(@)]
          /\ ws' = NoSocket
     ELSE UNCHANGED <<ws, sockets>>
  /\ disconnectCalled' = TRUE
  /\ clientOp' = "disconnect"
  /\ UNCHANGED <<retryAttempts, timers>>
  /\ UNCHANGED serverVars

(* ---- specifications ---- *)

(* Sessions and rooms: connection life cycle and room membership. *)
Next ==
  \/ (nextClient <= MaxSessions /\ \E g \in GeneratedNames : Connect(g))
  \/ \E s \in clients : BeginClose(s)
  \/ \E s \in clients : Close(s)
  \/ (nextRoom <= MaxRooms /\ \E s \in clients : CreateRoom(s, NoName))
  \/ \E s \in clients, r \in 0..MaxRooms, n \in 0..MaxNames : JoinRoom(s, r, n)
  \/ \E s \in clients : LeaveRoom(s)
  \/ \E s \in clients : GetRooms(s)

Spec == Init /\ [][Next]_vars

(* The whiteboard of one room: every handler of the room subsystem.  An
   element id is absent, short, or the longest an unlock-element message
   can carry. *)
BoardElements == {NoElement, 1, UnlockLongElement}

NextBoard ==
  \/ (nextClient <= MaxSessions /\ Connect(ThreeDigitName))
  \/ \E s \in clients : BeginClose(s)
  \/ \E s \in clients : Close(s)
  \/ (nextRoom <= MaxBoardRooms /\ \E s \in clients : CreateRoom(s, NoName))
  \/ \E s \in clients, r \in 0..MaxBoardRooms : JoinRoom(s, r, NoName)
  \/ \E s \in clients : LeaveRoom(s)
  \/ \E s \in clients, e \in BoardElements : LockElement(s, e)
  \/ \E s \in clients, e \in BoardElements : UnlockElement(s, e)
  \/ (nextAction <= MaxActions
      /\ \E s \in clients, kind \in ActionKinds, e \in 0..MaxElements,
            sz \in PayloadSizes : Draw(s, kind, e, sz))
  \/ \E s \in clients : GetDrawingHistory(s)

SpecBoard == Init /\ [][NextBoard]_vars

(* Joins of one room whose room name, display names, history and lock
   table are short or come near the size limit: two drawing actions of
   HalfData fit a frame each and not together. *)
RoomNameInputs == {NoName, LongRoomName}
NameInputs == {NoName, LongName}
JoinElements == {1, LockLongElement}
JoinGenerated == {OneDigitName, ThreeDigitName}

NextJoin ==
  \/ (nextClient <= MaxSessions /\ \E g \in JoinGenerated : Connect(g))
  \/ \E s \in clients : BeginClose(s)
  \/ (nextRoom <= MaxBoardRooms
      /\ \E s \in clients, nm \in RoomNameInputs : CreateRoom(s, nm))
  \/ \E s \in clients, r \in 0..MaxBoardRooms, n \in NameInputs : JoinRoom(s, r, n)
  \/ \E s \in clients, e \in JoinElements : LockElement(s, e)
  \/ (nextAction <= MaxJoinActions
      /\ \E s \in clients : Draw(s, "draw", NoElement, HalfData))

SpecJoin == Init /\ [][NextJoin]_vars

(* One session in one room drawing until the history cap is passed. *)
NextHistory ==
  \/ (nextClient = 1 /\ Connect(ThreeDigitName))
  \/ (nextRoom = 1 /\ \E s \in clients : CreateRoom(s, NoName))
  \/ \E s \in clients : users[s].roomId = NoRoom /\ JoinRoom(s, 1, NoName)
  \/ (nextAction <= MaxAppends
      /\ \E s \in clients : Draw(s, "draw", NoElement, SmallData))

SpecHistory == Init /\ [][NextHistory]_vars

(* A room filled up to one below its capacity by sessions that connect and
   join one after the other; the sessions after them act freely. *)
Filler(s) == s < RoomCapacity
Filled == \A s \in 1..(nextClient - 1) : Filler(s) => users[s].roomId # NoRoom

NextFull ==
  \/ (nextClient < RoomCapacity + MaxExtra /\ Filled /\ Connect(ThreeDigitName))
  \/ (nextRoom = 1 /\ \E s \in clients : CreateRoom(s, NoName))
  \/ \E s \in clients : Filler(s) /\ users[s].roomId = NoRoom /\ JoinRoom(s, 1, NoName)
  \/ \E s \in clients, r \in {NoRoom, 1, LongRoomId} :
       ~Filler(s) /\ JoinRoom(s, r, NoName)
  \/ \E s \in clients : ~Filler(s) /\ LeaveRoom(s)
  \/ \E s \in clients : ~Filler(s) /\ BeginClose(s)
  \/ \E s \in clients : ~Filler(s) /\ Close(s)

SpecFull == Init /\ [][NextFull]_vars

(* Document edits of every shape.  A declared timestamp is absent, the
   server's clock reading, the same instant in another spelling, or one of
   two strings that are no dates. *)
DeclaredTimes == {NoTime, 1, AltTime + 1, InvalidTime, OtherInvalidTime}
ProjectInputs == 0..MaxProjects \cup {ProtoProject}

(* the clock does not advance within the handler *)
NoAdvance == <<>>

(* the clock advances by 0 or 1 before each of the first n readings *)
RECURSIVE Advances(_)
Advances(n) ==
  IF n = 0 THEN {<<>>}
  ELSE {Append(q, v) : q \in Advances(n - 1), v \in 0..1}

NextDoc ==
  \/ (nextClient <= MaxSessions /\ Connect(ThreeDigitName))
  \/ (nextActivity <= MaxEdits
      /\ \E s \in clients, p \in ProjectInputs, a \in 0..MaxAuthors,
            c \in LinesUpTo(1), t \in DeclaredTimes :
           DocumentEdit(s, p, a, c, t, NoAdvance))

SpecDoc == Init /\ [][NextDoc]_vars

(* The line merge: one session, contents of several lines, declared
   timestamps before and after the server clock or no date at all, and a
   clock that advances between the readings of one handler. *)
NextMerge ==
  \/ (nextClient = 1 /\ Connect(ThreeDigitName))
  \/ (nextActivity <= MaxMergeEdits
      /\ \E s \in clients, a \in 1..MaxAuthors,
            c \in LinesUpTo(MaxLines) \ {NoContent, EmptyContent},
            t \in {InvalidTime, AltTime + 1} \cup 1..(MaxClock + 1),
            adv \in Advances(MaxReads) :
           /\ clock + Sum(adv) <= MaxClock
           /\ DocumentEdit(s, 1, a, c, t, adv))

SpecMerge == Init /\ [][NextMerge]_vars

(* Two authors taking turns on one document until the merge log has passed
   its cap: every edit after the first is a conflict. *)
NextLog ==
  \/ (nextClient = 1 /\ Connect(ThreeDigitName))
  \/ (nextActivity <= MaxLogEdits
      /\ \E s \in clients, a \in 1..2, t \in 2..3 :
           /\ 1 \in DOMAIN documents
                => documents[1].lastModifiedBy # a /\ documents[1].lastModified # t
           /\ DocumentEdit(s, 1, a, <<1>>, t, NoAdvance))

SpecLog == InitLog /\ [][NextLog]_vars

(* One session editing one project past the activity cap, with reads of the
   activity history once the ring is nearly full. *)
NextActivity ==
  \/ (nextClient = 1 /\ Connect(ThreeDigitName))
  \/ (nextActivity <= MaxRingEdits
      /\ \E s \in clients, t \in 0..1 :
           DocumentEdit(s, 1, 1, <<1>>, t, NoAdvance))
  \/ \E p \in 0..MaxProjects :
       /\ p \in DOMAIN activities => Len(activities[p]) >= ActivityCap - 1
       /\ GetActivities(p)

SpecActivity == Init /\ [][NextActivity]_vars

(* unrecognized types: short ones and the longest a message can carry *)
UnknownTypes == 1..MaxUnknownTypes \cup {LongType}

(* The dispatcher as a whole: rejected and unrecognized payloads next to
   room, lock and document handlers, with connections that close or whose
   sends fail. *)
NextDispatch ==
  \/ (nextClient <= MaxSessions /\ Connect(ThreeDigitName))
  \/ \E s \in clients : BeginClose(s)
  \/ (nextRoom <= MaxBoardRooms /\ \E s \in clients : CreateRoom(s, NoName))
  \/ \E s \in clients, r \in 1..MaxBoardRooms : JoinRoom(s, r, NoName)
  \/ \E s \in clients, e \in 1..MaxElements : LockElement(s, e)
  \/ \E s \in clients, e \in 1..MaxElements : UnlockElement(s, e)
  \/ (nextActivity <= MaxDispatchEdits
      /\ \E s \in clients, a \in 1..MaxAuthors, t \in 1..MaxClock :
           DocumentEdit(s, 1, a, <<1>>, t, NoAdvance))
  \/ \E s \in clients, k \in RejectedKinds : BadMessage(s, k)
  \/ \E s \in clients, ty \in UnknownTypes : UnknownType(s, ty)

SpecDispatch == Init /\ [][NextDispatch]_vars

(* Fan-outs to recipients of which some are no longer open: the lock
   broadcasts of a room, the document-merged broadcast and the vote
   broadcasts to all connections, starting with or without stored votes.  The k-th
   document-edit comes from session k under its own author id. *)
NextFanout ==
  \/ (nextClient <= MaxFanSessions /\ Connect(ThreeDigitName))
  \/ \E s \in clients : BeginClose(s)
  \/ (nextRoom <= MaxBoardRooms /\ \E s \in clients : CreateRoom(s, NoName))
  \/ \E s \in clients, r \in 1..MaxBoardRooms : JoinRoom(s, r, NoName)
  \/ \E s \in clients, e \in 1..MaxElements : LockElement(s, e)
  \/ \E s \in clients, e \in 1..MaxElements : UnlockElement(s, e)
  \/ (nextActivity <= MaxDispatchEdits
      /\ \E s \in clients :
           s = nextActivity /\ DocumentEdit(s, 1, s, <<1>>, s, NoAdvance))
  \/ CreateVote(1, 1)
  \/ SubmitVote(1, 1, 0)

SpecFanout == InitVotes /\ [][NextFanout]_vars

(* The vote routes: projects in and outside the catalog, bodies with and
   without options, client id and option index, recipients that are no
   longer open, and a vote store loaded empty or with a vote in it. *)
VoteProjects == {1, 2, 4}
OptionCounts == {NoOptions, 0, 2}
Voters == {NoVoter, 1}
OptionIndexes == {NoIndex, -1, 0, 2}

NextVote ==
  \/ (nextClient <= MaxSessions /\ Connect(ThreeDigitName))
  \/ \E s \in clients : BeginClose(s)
  \/ \E p \in VoteProjects, n \in OptionCounts : CreateVote(p, n)
  \/ \E p \in VoteProjects, c \in Voters, i \in OptionIndexes :
       SubmitVote(p, c, i)

SpecVote == InitVotes /\ [][NextVote]_vars

(* Several drawing actions in one room whose members come, go and close. *)
NextOrder ==
  \/ (nextClient <= MaxSessions /\ Connect(ThreeDigitName))
  \/ \E s \in clients : BeginClose(s)
  \/ (nextRoom <= MaxBoardRooms /\ \E s \in clients : CreateRoom(s, NoName))
  \/ \E s \in clients, r \in 1..MaxBoardRooms : JoinRoom(s, r, NoName)
  \/ \E s \in clients : LeaveRoom(s)
  \/ (nextAction <= MaxOrderActions
      /\ \E s \in clients, kind \in {"draw", "move"}, sz \in PayloadSizes :
           Draw(s, kind, NoElement, sz))

SpecOrder == Init /\ [][NextOrder]_vars

(* The client alone: the application connects and disconnects, the network
   opens and closes the sockets, the reconnect timeouts fire. *)
NextClient ==
  \/ (Len(sockets) < MaxSockets /\ ClientConnect)
  \/ (Len(sockets) < MaxSockets /\ Reconnect)
  \/ \E k \in DOMAIN sockets : OnOpen(k)
  \/ \E k \in DOMAIN sockets : PeerClose(k)
  \/ \E k \in DOMAIN sockets : OnClose(k)
  \/ ClientDisconnect

SpecClient == Init /\ [][NextClient]_vars

(* ---- properties ---- *)
(* the elements a lock table holds, and the holder it records for one *)
LockedIn(l) == {l[i].elementId : i \in 1..Len(l)}
HolderIn(l, e) == (CHOOSE x \in Range(l) : x.elementId = e).userId
EventsIn(o, s) == {o[i].ev : i \in {j \in 1..Len(o) : o[j].to = s}}
EventsTo(s) == EventsIn(out, s)
SentTypes == {out[i].ev.type : i \in 1..Len(out)}
RemovalReq(q) == q.kind \in {"leave-room", "close"}

(* C1: every member of every room is a currently registered session; a
   session whose close handler has run is listed by no room. *)
C1_MembersAreConnected ==
  \A r \in rooms : Range(members[r]) \subseteq clients

(* C2: a leave-room or close that removes the last member of a room also
   removes the room in the same step: no step leaves in the store a room
   whose member set it has just emptied. *)
C2_EmptiedRoomIsDeleted ==
  [][\A r \in rooms :
       (Range(members[r]) # {} /\ r \in rooms') => Range(members'[r]) # {}]_vars

(* a removal has just succeeded and its room is gone from the store *)
C2_Witness ==
  /\ RemovalReq(lastReq)
  /\ lastReq.ok
  /\ lastReq.room \notin rooms

(* C10: a leave-room from a session that is in no room's member set changes
   no member set, deletes no room and sends no event to anyone. *)
C10_LeaveByNonMemberIsSilent ==
  [][(lastReq'.kind = "leave-room"
      /\ \A r \in rooms : lastReq'.from \notin Range(members[r]))
       => (members' = members /\ rooms' = rooms /\ out' = <<>>)]_vars

(* C3: no lock table ever lists an element twice, so an element has at
   most one holder; a lock-element naming an element that already has a
   holder in the requester's room fails, whoever asks (the holder
   included): the lock table keeps its holder and no element-locked event
   is sent. *)
C3_LockIsExclusive ==
  [][LET q == lastReq'
         r == users[q.from].roomId
     IN /\ \A x \in rooms' : \A i, j \in 1..Len(locks'[x]) :
             locks'[x][i].elementId = locks'[x][j].elementId => i = j
        /\ (q.kind = "lock-element" /\ q.elem # NoElement
            /\ r \in rooms /\ q.elem \in LockedIn(locks[r]))
             => /\ locks' = locks
                /\ "element-locked" \notin SentTypes']_vars

(* the holder itself has just been refused a second lock *)
C3_Witness ==
  /\ lastReq.kind = "lock-element"
  /\ ~lastReq.ok
  /\ lastReq.room \in rooms
  /\ lastReq.elem \in LockedIn(locks[lastReq.room])
  /\ HolderIn(locks[lastReq.room], lastReq.elem) = lastReq.from

(* the unlock-element requests C4 speaks about: the element has no holder
   in the requester's room, or its holder is not the requester *)
RefusedUnlock(q) ==
  LET r == users[q.from].roomId
      held == r \in rooms /\ q.elem \in LockedIn(locks[r])
  IN /\ q.kind = "unlock-element"
     /\ q.elem # NoElement
     /\ (~held \/ HolderIn(locks[r], q.elem) # q.from)

(* C4: an unlock-element naming an element that has no holder, or whose
   holder is not the requester, fails: the lock table is unchanged, no
   element-unlocked event is sent and the requester receives an error. *)
C4_UnlockOnlyByHolder ==
  [][LET q == lastReq'
     IN RefusedUnlock(q)
          => /\ locks' = locks
             /\ "element-unlocked" \notin SentTypes'
             /\ \E ev \in EventsIn(out', q.from) : ev.type = "error"]_vars

(* a session other than the holder has just been refused an unlock *)
C4_Witness ==
  /\ lastReq.kind = "unlock-element"
  /\ ~lastReq.ok
  /\ lastReq.room \in rooms
  /\ lastReq.elem \in LockedIn(locks[lastReq.room])
  /\ HolderIn(locks[lastReq.room], lastReq.elem) # lastReq.from
  /\ \E ev \in EventsTo(lastReq.from) : ev.type = "error"

(* C5: a draw, erase, move or resize naming an element that is
   in the lock table of the requester's room is rejected whoever holds the
   lock: the history is unchanged and the only frame sent is an error to
   the requester naming the holder.  When the named element is not in the
   table, the action is appended to the room's history. *)
C5_LockedElementRejectsActions ==
  [][LET q == lastReq'
         r == users[q.from].roomId
     IN (q.kind \in ActionKinds /\ q.elem # NoElement /\ r \in rooms)
          => IF q.elem \in LockedIn(locks[r])
             THEN /\ history' = history
                  /\ out' = <<Frame(q.from, Err("Element is locked by user",
                                                HolderIn(locks[r], q.elem)))>>
             ELSE /\ Len(history'[r]) = Len(history[r]) + 1
                  /\ history'[r][Len(history'[r])].elementId = q.elem
                  /\ history'[r][Len(history'[r])].actionType = q.kind
                  /\ history'[r][Len(history'[r])].userId = q.from]_vars

(* the holder's own action on the element it holds has just been rejected *)
C5_Witness ==
  /\ lastReq.kind \in ActionKinds
  /\ ~lastReq.ok
  /\ lastReq.room \in rooms
  /\ lastReq.elem \in LockedIn(locks[lastReq.room])
  /\ HolderIn(locks[lastReq.room], lastReq.elem) = lastReq.from
  /\ \E ev \in EventsTo(lastReq.from) : ev.type = "error" /\ ev.arg = lastReq.from

(* C6: a drawing action is appended to a room's history only when its
   author is a member of that room at that step; from a session that is a
   member of no room it is answered with an error and changes no history. *)
C6_DrawOnlyByMember ==
  [][LET q == lastReq'
     IN q.kind \in ActionKinds
          => /\ \A r \in rooms :
                  history'[r] # history[r] => q.from \in Range(members[r])
             /\ (\A r \in rooms : q.from \notin Range(members[r]))
                  => /\ history' = history
                     /\ \E ev \in EventsIn(out', q.from) : ev.type = "error"]_vars

(* C7: a room's history holds at most 1000 entries and is the last
   min(n, 1000) of the n actions appended to it, in append order.  Under
   SpecHistory every created action goes to the one room, so the actions
   appended are those with ids 1 .. nextAction - 1. *)
C7_HistoryIsNewestSuffix ==
  \A r \in rooms :
    LET n == nextAction - 1
        k == Min(n, 1000)
    IN /\ Len(history[r]) = k
       /\ \A i \in 1..k : history[r][i].id = n - k + i

(* the cap has been passed: entries have been dropped *)
C7_Witness ==
  \E r \in rooms : Len(history[r]) = 1000 /\ history[r][1].id > 1

JoinFailed(q) == [type |-> "room-join-failed", roomId |-> q.room]

(* C8 as stated: no room ever has more than 20 members; a join-room to a
   room that has 20 members, or to an id that is not in the store, is
   answered with room-join-failed alone and changes neither the member sets
   nor the set of rooms. *)
C8_RoomCapacity ==
  [][LET q == lastReq'
     IN /\ \A r \in rooms' : Cardinality(Range(members'[r])) <= 20
        /\ (q.kind = "join-room"
            /\ (q.room \notin rooms \/ Cardinality(Range(members[q.room])) >= 20))
             => /\ members' = members
                /\ rooms' = rooms
                /\ out' = <<Frame(q.from, JoinFailed(q))>>]_vars

(* C8 amended: room-join-failed reaches the requester when its connection
   is open and the serialized event, which echoes the requested room id, is
   within the 1 MiB limit; otherwise nothing is sent.  User-joined and
   room-state are sent in neither case. *)
C8_RoomCapacityOpen ==
  [][LET q == lastReq'
     IN /\ \A r \in rooms' : Cardinality(Range(members'[r])) <= 20
        /\ (q.kind = "join-room"
            /\ (q.room \notin rooms \/ Cardinality(Range(members[q.room])) >= 20))
             => /\ members' = members
                /\ rooms' = rooms
                /\ out' = IF q.from \in wsOpen /\ ~TooLarge(JoinFailed(q))
                          THEN <<Frame(q.from, JoinFailed(q))>>
                          ELSE <<>>]_vars

(* a join-room to a room holding 20 members has just been refused *)
C8_Witness ==
  /\ lastReq.kind = "join-room"
  /\ ~lastReq.ok
  /\ lastReq.room \in rooms
  /\ Cardinality(Range(members[lastReq.room])) = 20
  /\ lastReq.from \notin Range(members[lastReq.room])
  /\ out = <<Frame(lastReq.from, JoinFailed(lastReq))>>

JoinedReq(q) == q.kind = "join-room" /\ q.ok
UserJoined(q) ==
  [type |-> "user-joined", userId |-> q.from, userName |-> users[q.from].name,
   userCount |-> Len(members[q.room])]
RoomJoined(q) ==
  [type |-> "room-joined", roomId |-> q.room, userName |-> users[q.from].name]
Snapshot(q) ==
  [type |-> "room-state", roomId |-> q.room, roomName |-> roomNames[q.room],
   users |-> [i \in 1..Len(members[q.room]) |->
                [id |-> members[q.room][i],
                 name |-> users[members[q.room][i]].name]],
   drawingHistory |-> history[q.room],
   lockedElements |-> locks[q.room]]

(* C9 as stated: after a successful join-room every member of the room has
   received user-joined with the new member count, and the joiner has
   received the snapshot of members, history and lock table. *)
C9_EveryMemberIsNotified ==
  JoinedReq(lastReq) =>
    /\ \A m \in Range(members[lastReq.room]) : UserJoined(lastReq) \in EventsTo(m)
    /\ Snapshot(lastReq) \in EventsTo(lastReq.from)

(* C9 amended: user-joined reaches exactly the members whose connection is
   open, and only when its serialized form is within the 1 MiB limit; the
   snapshot reaches the joiner when the joiner's connection is open and the
   serialized snapshot is within the limit; no snapshot goes to anyone
   else. *)
C9_OpenMembersAreNotified ==
  JoinedReq(lastReq) =>
    LET q == lastReq
    IN /\ \A m \in Range(members[q.room]) :
            UserJoined(q) \in EventsTo(m)
              <=> (m \in wsOpen /\ ~TooLarge(UserJoined(q)))
       /\ Snapshot(q) \in EventsTo(q.from)
            <=> (q.from \in wsOpen /\ ~TooLarge(Snapshot(q)))
       /\ \A i \in 1..Len(out) :
            out[i].ev.type = "room-state" => out[i].to = q.from /\ out[i].ev = Snapshot(q)

(* a second member has joined a room that has a history and a lock *)
C9_Witness ==
  /\ JoinedReq(lastReq)
  /\ Cardinality(Range(members[lastReq.room]) \cap wsOpen) >= 2
  /\ history[lastReq.room] # <<>>
  /\ LockedIn(locks[lastReq.room]) # {}
  /\ Snapshot(lastReq) \in EventsTo(lastReq.from)

(* ---- documents: the requests the claims speak about ---- *)
EditReq(q) == q.kind = "document-edit"

(* the payload carries a project id, an author, a content and a timestamp *)
CompleteReq(q) ==
  /\ EditReq(q)
  /\ q.project # NoProject
  /\ q.author # NoAuthor
  /\ q.content \notin {NoContent, EmptyContent}
  /\ q.ts # NoTime

(* a complete edit of an existing document by another author with another
   timestamp; documents is the store before the handler *)
ConflictReq(q) ==
  /\ CompleteReq(q)
  /\ q.project \in DOMAIN documents
  /\ documents[q.project].lastModified # q.ts
  /\ documents[q.project].lastModifiedBy # q.author

(* a complete edit that handleDocumentConflict handles without a merge: the
   dispatcher has passed it on, which it does for every project id that
   names no inherited property *)
NoConflictReq(q) ==
  CompleteReq(q) /\ q.project # ProtoProject /\ ~ConflictReq(q)

MergedFramesTo(o, s) ==
  {i \in 1..Len(o) : o[i].to = s /\ o[i].ev.type = "document-merged"}

MergedFrames(o) == {i \in 1..Len(o) : o[i].ev.type = "document-merged"}

(* C11: for each project id, every document-edit whose payload passes the
   validation (project id, author, content and timestamp present) raises
   the version of its project's document by exactly 1, the first one
   setting it to 1, on the no-conflict and on the conflict path alike; no
   step lowers the version of any document. *)
C11_VersionIncreasesByOne ==
  [][LET q == lastReq' IN
       /\ CompleteReq(q) =>
            /\ q.project \in DOMAIN documents'
            /\ documents'[q.project].version =
                 (IF q.project \in DOMAIN documents
                  THEN documents[q.project].version + 1 ELSE 1)
       /\ \A p \in DOMAIN documents :
            /\ p \in DOMAIN documents'
            /\ documents'[p].version >= documents[p].version]_vars

(* C12: for an existing document the merge path is taken exactly when the
   declared timestamp differs from the stored lastModified and the author
   differs from the stored lastModifiedBy; otherwise the edit is sequential
   and the submitted content replaces the stored content wholesale. *)
C12_ConflictIffBothDiffer ==
  [][LET q == lastReq'
         p == q.project
     IN CompleteReq(q) /\ p \in DOMAIN documents =>
          LET both == /\ documents[p].lastModified # q.ts
                      /\ documents[p].lastModifiedBy # q.author
          IN /\ both <=> Len(mergeLogs') > Len(mergeLogs)
             /\ ~both => documents'[p].content = q.content]_vars

(* another author's edit carrying the stored timestamp was sequential and
   replaced a different content *)
C12_Witness ==
  /\ EditReq(lastReq)
  /\ lastReq.path = "sequential"
  /\ lastReq.prev.lastModifiedBy # lastReq.author
  /\ lastReq.prev.lastModified = lastReq.ts
  /\ lastReq.prev.content # lastReq.content
  /\ documents[lastReq.project].content = lastReq.content
  /\ mergeLogs = <<>>

(* C13: an edit on the no-conflict path (the first edit included) appends
   nothing to the merge log and sends no document-merged event; the document
   takes the submitted content, the declared timestamp and the declared
   author, and no other document changes. *)
C13_NoConflictPathIsQuiet ==
  [][LET q == lastReq'
         p == q.project
     IN NoConflictReq(q) =>
          /\ mergeLogs' = mergeLogs
          /\ MergedFrames(out') = {}
          /\ DOMAIN documents' = DOMAIN documents \cup {p}
          /\ documents'[p].content = q.content
          /\ documents'[p].lastModified = q.ts
          /\ documents'[p].lastModifiedBy = q.author
          /\ \A o \in DOMAIN documents \ {p} : documents'[o] = documents[o]]_vars

(* the same author resubmitted with another timestamp, which is not the
   server's clock reading *)
C13_Witness ==
  /\ EditReq(lastReq)
  /\ lastReq.path = "sequential"
  /\ lastReq.prev.lastModifiedBy = lastReq.author
  /\ lastReq.prev.lastModified # lastReq.ts
  /\ lastReq.ts # lastReq.reads[1]
  /\ documents[lastReq.project].lastModified = lastReq.ts
  /\ out = <<>>

(* C14: an edit on the conflict path sends exactly one document-merged event
   to every open connection, the requester included and whether or not the
   connection is in a room, carrying the merged content and the new
   version. *)
C14_MergeReachesEveryOpenConnection ==
  [][LET q == lastReq'
         p == q.project
     IN ConflictReq(q) =>
          \A s \in wsOpen :
            /\ Cardinality(MergedFramesTo(out', s)) = 1
            /\ \A i \in MergedFramesTo(out', s) :
                 /\ out'[i].ev.projectId = p
                 /\ out'[i].ev.content = documents'[p].content
                 /\ out'[i].ev.version = documents'[p].version
                 /\ out'[i].ev.mergedBy = q.author]_vars

(* a merge reached the requester and another open connection, one of them in
   a room and one not *)
C14_Witness ==
  /\ EditReq(lastReq)
  /\ lastReq.path = "merge"
  /\ \E s1, s2 \in wsOpen :
       /\ s1 # s2
       /\ lastReq.from \in {s1, s2}
       /\ users[s1].roomId # NoRoom
       /\ users[s2].roomId = NoRoom
       /\ MergedFramesTo(out, s1) # {}
       /\ MergedFramesTo(out, s2) # {}

(* C15: an edit on the conflict path appends exactly one merge-log entry:
   userA is the author of the stored version, userB and resolvedBy the
   incoming author, userAContent and userBContent the stored and the
   incoming content, mergedContent the content stored afterwards, and
   resolutionType 'auto'. *)
C15_MergeIsLogged ==
  [][LET q == lastReq'
         p == q.project
     IN ConflictReq(q) /\ Len(mergeLogs) < MaxMergeLogs =>
          /\ Len(mergeLogs') = Len(mergeLogs) + 1
          /\ SubSeq(mergeLogs', 1, Len(mergeLogs)) = mergeLogs
          /\ LET e == mergeLogs'[Len(mergeLogs')]
             IN /\ e.projectId = p
                /\ e.userA = documents[p].lastModifiedBy
                /\ e.userB = q.author
                /\ e.resolvedBy = q.author
                /\ e.userAContent = documents[p].content
                /\ e.userBContent = q.content
                /\ e.mergedContent = documents'[p].content
                /\ e.resolutionType = "auto"]_vars

(* a second merge was logged, its two contents differing *)
C15_Witness ==
  /\ EditReq(lastReq)
  /\ lastReq.path = "merge"
  /\ Len(mergeLogs) = 2
  /\ mergeLogs[2].userA = lastReq.prev.lastModifiedBy
  /\ mergeLogs[2].userB = lastReq.author
  /\ mergeLogs[2].userAContent # mergeLogs[2].userBContent

(* C16 as stated: on the conflict path every line index covered by the
   incoming content holds the incoming line in the merged result, whatever
   lastModified the document has stored. *)
C16_IncomingLineAlwaysWins ==
  [][LET q == lastReq'
         p == q.project
     IN ConflictReq(q) =>
          /\ Len(documents'[p].content) >= Len(q.content)
          /\ \A i \in 1..Len(q.content) :
               documents'[p].content[i] = q.content[i]]_vars

(* the clock reading in force at line i of a merge: the activity stamp is
   the first reading of the handler, and every line within the stored lines
   that differs from the stored line makes a reading of its own *)
LineReading(q, stored, i) ==
  q.reads[1 + Cardinality({j \in 1..Min(i, Len(stored)) :
                             stored[j] # q.content[j]})]

(* C16: on the conflict path a line index covered by the incoming content
   holds the incoming line when the stored lastModified is a date strictly
   before the reading of the server's clock made for that line, or when the
   index lies beyond the stored lines; otherwise (a stored lastModified that
   is no date, a future one, or one equal to the reading) the index keeps
   the stored line. *)
C16_IncomingLineWinsOverOlderStamp ==
  [][LET q == lastReq'
         p == q.project
     IN ConflictReq(q) =>
          LET stored == documents[p].content
              merged == documents'[p].content
              older(i) == /\ ParseTime(documents[p].lastModified) # NaN
                          /\ ParseTime(documents[p].lastModified)
                               < LineReading(q, stored, i)
          IN /\ Len(merged) >= Len(q.content)
             /\ \A i \in 1..Len(q.content) :
                  merged[i] = IF i > Len(stored) \/ older(i)
                              THEN q.content[i] ELSE stored[i]]_vars

(* a merge kept a stored line whose reading equalled the stored lastModified
   and replaced a later line, the clock having advanced in between *)
C16_Witness ==
  /\ EditReq(lastReq)
  /\ lastReq.path = "merge"
  /\ \E i, j \in 1..Min(Len(lastReq.prev.content), Len(lastReq.content)) :
       /\ i < j
       /\ lastReq.prev.content[i] # lastReq.content[i]
       /\ documents[lastReq.project].content[i] = lastReq.prev.content[i]
       /\ lastReq.prev.content[j] # lastReq.content[j]
       /\ documents[lastReq.project].content[j] = lastReq.content[j]

(* the reference procedure, line by line; Judged(i) says whether the
   incoming side is judged newer at line i *)
RefMerge(stored, incoming, Judged(_)) ==
  [i \in 1..Max(Len(stored), Len(incoming)) |->
     IF i > Len(stored) THEN incoming[i]
     ELSE IF i <= Len(incoming) /\ incoming[i] # stored[i] /\ Judged(i)
          THEN incoming[i]
          ELSE stored[i]]

(* C17: the merged content is the result of the reference procedure on the
   lines: start from the stored lines; an incoming line beyond the current
   length is appended, one within it replaces the line only if it differs
   and the incoming side is judged newer, which is judged line by line
   against the clock. *)
C17_MergeFollowsReference ==
  [][LET q == lastReq'
         p == q.project
     IN ConflictReq(q) =>
          LET Judged(i) ==
                /\ ParseTime(documents[p].lastModified) # NaN
                /\ LineReading(q, documents[p].content, i)
                     > ParseTime(documents[p].lastModified)
          IN documents'[p].content =
               RefMerge(documents[p].content, q.content, Judged)]_vars

(* a longer incoming content replaced a line and added one *)
C17_Witness ==
  /\ EditReq(lastReq)
  /\ lastReq.path = "merge"
  /\ Len(lastReq.content) > Len(lastReq.prev.content)
  /\ lastReq.content[1] # lastReq.prev.content[1]
  /\ documents[lastReq.project].content = lastReq.content

(* C18: the merge log has at most 1000 entries and is the last min(n, 1000)
   of the n entries ever appended, the loaded ones included, in append
   order. *)
C18_MergeLogKeepsNewest ==
  LET n == nextLog - 1 IN
  /\ Len(mergeLogs) <= MaxMergeLogs
  /\ Len(mergeLogs) = Min(n, MaxMergeLogs)
  /\ \A i \in 1..Len(mergeLogs) : mergeLogs[i].id = n - Len(mergeLogs) + i

(* a merge was logged after the log had reached its cap *)
C18_Witness ==
  /\ EditReq(lastReq)
  /\ lastReq.path = "merge"
  /\ nextLog - 1 > MaxMergeLogs
  /\ Len(mergeLogs) = MaxMergeLogs
  /\ mergeLogs[Len(mergeLogs)].id = nextLog - 1

(* C19: a document-edit whose payload lacks a project id, an author, a
   content or a timestamp changes neither the documents nor the merge log
   nor the activity rings, and sends nothing. *)
C19_IncompleteEditChangesNothing ==
  [][LET q == lastReq' IN
       EditReq(q) /\ ~CompleteReq(q) =>
         /\ documents' = documents
         /\ mergeLogs' = mergeLogs
         /\ activities' = activities
         /\ out' = <<>>]_vars

(* C20: the activity ring of a project holds at most 20 entries and is the
   most recent min(n, 20) of the project's n edit events in arrival order,
   after any sequence of edits and activity reads (every edit of
   SpecActivity names the same project, so n = nextActivity - 1). *)
C20_RingKeepsNewestInOrder ==
  \A p \in DOMAIN activities :
    LET n == nextActivity - 1
        ring == activities[p]
    IN /\ Len(ring) <= ActivityCap
       /\ Len(ring) = Min(n, ActivityCap)
       /\ \A i \in 1..Len(ring) : ring[i].id = n - Len(ring) + i

(* ---- dispatcher ---- *)
(* rooms, lock tables, histories, documents and session membership are the
   same after the step as before it *)
StoresUnchanged ==
  /\ rooms' = rooms
  /\ members' = members
  /\ locks' = locks
  /\ history' = history
  /\ documents' = documents
  /\ mergeLogs' = mergeLogs
  /\ activities' = activities
  /\ clients' = clients
  /\ wsOpen' = wsOpen
  /\ users' = users

(* C21: an inbound payload that is empty, larger than 1 MiB, not parseable
   or without a type changes no room, lock table, history, document or
   session membership and sends nothing to any other session; the sender
   stays registered. *)
C21_RejectedPayloadChangesNothing ==
  [][LET q == lastReq' IN
       q.kind = "rejected" =>
         /\ StoresUnchanged
         /\ q.from \in clients'
         /\ \A i \in 1..Len(out') : out'[i].to = q.from]_vars

(* an unparseable payload was answered to its sender alone, while another
   session shares its room and a lock and a document are stored *)
C21_Witness ==
  /\ lastReq.kind = "rejected"
  /\ lastReq.why = "unparseable"
  /\ Len(out) = 1
  /\ \E r \in rooms :
       /\ lastReq.from \in Range(members[r])
       /\ Cardinality(Range(members[r]) \cap wsOpen) >= 2
       /\ LockedIn(locks[r]) # {}
  /\ DOMAIN documents # {}

UnknownTypeError(q) == Err("Unknown message type", q.ty)

(* C22 as stated: a message with an unrecognized type is answered with
   exactly one error event to the sender that echoes the type, reaches no
   other session and changes no server state. *)
C22_UnknownTypeIsEchoed ==
  [][LET q == lastReq' IN
       q.kind = "unknown" =>
         /\ StoresUnchanged
         /\ out' = <<Frame(q.from, UnknownTypeError(q))>>]_vars

(* C22 amended: the one error event that echoes the type goes to the sender
   when the sender's connection is open and the serialized event is within
   the 1 MiB limit; otherwise nothing is sent.  No other session is sent
   anything and no server state changes. *)
C22_UnknownTypeIsEchoedOpen ==
  [][LET q == lastReq' IN
       q.kind = "unknown" =>
         /\ StoresUnchanged
         /\ out' = IF q.from \in wsOpen /\ ~TooLarge(UnknownTypeError(q))
                   THEN <<Frame(q.from, UnknownTypeError(q))>>
                   ELSE <<>>]_vars

(* an unrecognized type was echoed to a sender that shares a room with
   another open session *)
C22_Witness ==
  /\ lastReq.kind = "unknown"
  /\ lastReq.ty = MaxUnknownTypes
  /\ Len(out) = 1
  /\ \E r \in rooms :
       /\ lastReq.from \in Range(members[r])
       /\ Cardinality(Range(members[r]) \cap wsOpen) >= 2

(* C23: every lock-element or unlock-element request of a session that is in
   a room is answered to the requester with a success event (element-locked
   or element-unlocked) or an error event, whatever the payload. *)
C23_LockRequestIsAnswered ==
  [][LET q == lastReq' IN
       /\ q.kind \in {"lock-element", "unlock-element"}
       /\ q.room \in rooms
       /\ q.from \in Range(members[q.room])
       => \E i \in 1..Len(out') :
            /\ out'[i].to = q.from
            /\ out'[i].ev.type \in
                 {"error", IF q.kind = "lock-element" THEN "element-locked"
                           ELSE "element-unlocked"}]_vars

(* ---- fan-out ---- *)
ElementLocked(q) ==
  [type |-> "element-locked", elementId |-> q.elem, lockedBy |-> q.from]

ElementUnlocked(q) ==
  [type |-> "element-unlocked", elementId |-> q.elem, unlockedBy |-> q.from]

(* a recipient whose connection is open *)
Sound(s) == s \in wsOpen

ErrorFrames(o) == {i \in 1..Len(o) : o[i].ev.type = "error"}

VoteFrames(o, s) ==
  {i \in 1..Len(o) :
     o[i].to = s /\ o[i].ev.type \in {"vote-created", "vote-updated"}}

(* C24: in a room fan-out and in a fan-out to all connections (the loop
   over the recipients, which in broadcastToRoom follows the size check) a
   recipient whose connection is not open, the state in which a send would
   fail, does not stop the delivery: every other recipient whose connection
   is open receives the event, and the failure is not reported to the
   sender, neither by an error event nor by the status of the HTTP
   response. *)
C24_FanoutSurvivesBadRecipient ==
  [][LET q == lastReq' IN
       /\ (q.kind = "lock-element" /\ q.ok /\ ~TooLarge(ElementLocked(q))) =>
            /\ \A m \in Range(members[q.room]) :
                 Sound(m) => ElementLocked(q) \in EventsIn(out', m)
            /\ ErrorFrames(out') = {}
       /\ (q.kind = "unlock-element" /\ q.ok /\ ~TooLarge(ElementUnlocked(q))) =>
            /\ \A m \in Range(members[q.room]) :
                 Sound(m) => ElementUnlocked(q) \in EventsIn(out', m)
            /\ ErrorFrames(out') = {}
       /\ ConflictReq(q) =>
            /\ \A s \in clients : Sound(s) => MergedFramesTo(out', s) # {}
            /\ ErrorFrames(out') = {}
       /\ (q.kind \in {"create-vote", "submit-vote"} /\ votes' # votes) =>
            /\ \A s \in clients : Sound(s) => VoteFrames(out', s) # {}
            /\ httpResp'.status # 500]_vars

(* an element-locked broadcast passed a member whose socket had left OPEN
   and reached a member that joined after it *)
C24_Witness ==
  /\ lastReq.kind = "lock-element"
  /\ lastReq.ok
  /\ lastReq.room \in rooms
  /\ LET mem == members[lastReq.room] IN
     \E i, j \in 1..Len(mem) :
       /\ i < j
       /\ mem[i] \notin wsOpen
       /\ mem[j] \in wsOpen
       /\ mem[j] # lastReq.from
       /\ ElementLocked(lastReq) \in EventsIn(out, mem[j])

(* ---- order of delivery ---- *)
RECURSIVE IsSubseq(_, _)
IsSubseq(a, b) ==
  IF a = <<>> THEN TRUE
  ELSE IF b = <<>> THEN FALSE
  ELSE IF Head(a) = Head(b) THEN IsSubseq(Tail(a), Tail(b))
  ELSE IsSubseq(a, Tail(b))

(* ids of the drawing actions of room r that went onto s's connection, in
   the order they were sent *)
DeliveredTo(s, r) ==
  LET ToHere(f) == f.to = s /\ f.room = r
      d == SelectSeq(wire, ToHere)
  IN [i \in 1..Len(d) |-> d[i].id]

HistoryIds(r) == [i \in 1..Len(history[r]) |-> history[r][i].id]

(* C25: handlers run one after the other, so the draw / erase / move /
   resize broadcasts a session receives for a room come in exactly the order
   in which the actions were appended to the room's history. *)
C25_DeliveryFollowsHistoryOrder ==
  \A r \in rooms : \A s \in 1..(nextClient - 1) :
    IsSubseq(DeliveredTo(s, r), HistoryIds(r))

(* an open member has received two of the three actions of its room *)
C25_Witness ==
  \E r \in rooms : \E s \in Range(members[r]) \cap wsOpen :
    /\ Len(history[r]) = MaxOrderActions
    /\ Len(DeliveredTo(s, r)) = 2
    /\ lastReq.kind \in ActionKinds

(* C26 as stated: a successful lock-element is broadcast to the room as
   element-locked with lockedBy = requester; an unlock-element of the same
   element by the same session right after it succeeds, returns the room's
   lock table to its state before the lock, is broadcast as
   element-unlocked with unlockedBy = requester, and leaves the element
   unlocked. *)
C26_LockThenUnlockRestoresTable ==
  [][LET q == lastReq' IN
       /\ q.kind = "lock-element" /\ q.ok =>
            \A m \in Range(members[q.room]) \cap wsOpen :
              ElementLocked(q) \in EventsIn(out', m)
       /\ /\ lastReq.kind = "lock-element" /\ lastReq.ok
          /\ q.kind = "unlock-element"
          /\ q.from = lastReq.from /\ q.elem = lastReq.elem
          => /\ q.ok
             /\ locks'[q.room] = lastReq.before
             /\ q.elem \notin LockedIn(locks'[q.room])
             /\ \A m \in Range(members[q.room]) \cap wsOpen :
                  ElementUnlocked(q) \in EventsIn(out', m)]_vars

(* C26 amended: the lock table is restored and the element left unlocked
   for every element id; each of the two broadcasts reaches the open
   members of the room exactly when its serialized form, which carries the
   element id, is within the 1 MiB limit. *)
C26_LockThenUnlockRestoresTableFits ==
  [][LET q == lastReq' IN
       /\ q.kind = "lock-element" /\ q.ok =>
            \A m \in Range(members[q.room]) \cap wsOpen :
              ElementLocked(q) \in EventsIn(out', m) <=> ~TooLarge(ElementLocked(q))
       /\ /\ lastReq.kind = "lock-element" /\ lastReq.ok
          /\ q.kind = "unlock-element"
          /\ q.from = lastReq.from /\ q.elem = lastReq.elem
          => /\ q.ok
             /\ locks'[q.room] = lastReq.before
             /\ q.elem \notin LockedIn(locks'[q.room])
             /\ \A m \in Range(members[q.room]) \cap wsOpen :
                  ElementUnlocked(q) \in EventsIn(out', m)
                    <=> ~TooLarge(ElementUnlocked(q))]_vars

(* a held element was unlocked by its holder in a room with two open
   members, and the table is empty again *)
C26_Witness ==
  /\ lastReq.kind = "unlock-element"
  /\ lastReq.ok
  /\ Cardinality(Range(members[lastReq.room]) \cap wsOpen) >= 2
  /\ lastReq.from \in Range(members[lastReq.room])
  /\ locks[lastReq.room] = <<>>
  /\ ElementUnlocked(lastReq) \in EventsTo(lastReq.from)

(* C27: no event whose serialized form exceeds 1 MiB is delivered, and every
   drawing action appended to a room's history is broadcast to the room's
   open members in the step that appends it. *)
C27_AppendedActionIsBroadcast ==
  [][LET q == lastReq' IN
       /\ \A i \in 1..Len(out') : ~TooLarge(out'[i].ev)
       /\ /\ q.kind \in ActionKinds
          /\ q.room \in rooms
          /\ history'[q.room] # history[q.room]
          => \A m \in Range(members[q.room]) \cap wsOpen :
               \E i \in 1..Len(out') :
                 /\ out'[i].to = m
                 /\ out'[i].ev.type = q.kind
                 /\ out'[i].ev.action =
                      history'[q.room][Len(history'[q.room])]]_vars

(* C28: a merge never removes lines: the merged content has exactly
   max(stored lines, incoming lines) lines and every stored line beyond the
   incoming content's length is kept unchanged. *)
C28_MergeKeepsTrailingLines ==
  [][LET q == lastReq'
         p == q.project
     IN ConflictReq(q) =>
          LET stored == documents[p].content
              merged == documents'[p].content
          IN /\ Len(merged) = Max(Len(stored), Len(q.content))
             /\ \A i \in (Len(q.content) + 1)..Len(stored) :
                  merged[i] = stored[i]]_vars

(* a shorter incoming content went through the merge and the stored last
   line is still there *)
C28_Witness ==
  /\ EditReq(lastReq)
  /\ lastReq.path = "merge"
  /\ Len(lastReq.content) < Len(lastReq.prev.content)
  /\ Len(documents[lastReq.project].content) = Len(lastReq.prev.content)
  /\ documents[lastReq.project].content[Len(lastReq.prev.content)]
       = lastReq.prev.content[Len(lastReq.prev.content)]
  /\ documents[lastReq.project].content[1] # lastReq.prev.content[1]

(* C29: every holder recorded in a room's lock table is a current member of
   that room. *)
C29_LockHoldersAreMembers ==
  \A r \in rooms : \A e \in LockedIn(locks[r]) : HolderIn(locks[r], e) \in Range(members[r])

(* C30: a session is a member of at most one room. *)
C30_AtMostOneRoom ==
  \A s \in 1..(nextClient - 1) :
    Cardinality({r \in rooms : s \in Range(members[r])}) <= 1

(* C31: the room pointer of a connected session is empty or names an
   existing room that has the session among its members; a lock-element,
   unlock-element or get-drawing-history of a session that is a member of
   no room changes no lock table and is sent no drawing history. *)
C31_RoomPointerIsValid ==
  [][/\ \A s \in clients' :
          \/ users'[s].roomId = NoRoom
          \/ /\ users'[s].roomId \in rooms'
             /\ s \in Range(members'[users'[s].roomId])
     /\ LET q == lastReq'
        IN (/\ q.kind \in {"lock-element", "unlock-element", "get-drawing-history"}
            /\ \A r \in rooms : q.from \notin Range(members[r]))
             => /\ locks' = locks
                /\ "drawing-history" \notin SentTypes']_vars

(* C32: a join-room that fails leaves the display name and the room pointer
   of the requesting session as they were before the request. *)
C32_FailedJoinChangesNoSession ==
  [][LET q == lastReq'
     IN (q.kind = "join-room" /\ ~q.ok) => users'[q.from] = users[q.from]]_vars

(* the frames of o addressed to session s, in sending order *)
FramesTo(o, s) == SelectSeq(o, LAMBDA f : f.to = s)

TypesOf(o) == [i \in 1..Len(o) |-> o[i].ev.type]

(* C33 as stated: after a successful join-room the joiner has been sent
   exactly user-joined, room-state and room-joined, in this order. *)
C33_JoinerGetsThreeFramesInOrder ==
  JoinedReq(lastReq) =>
    TypesOf(FramesTo(out, lastReq.from)) = <<"user-joined", "room-state", "room-joined">>

(* C33 amended: a joiner whose connection is open is sent, in this order,
   its own user-joined, the snapshot and room-joined, each of them only
   when its serialized form is within the 1 MiB limit, and nothing else; a
   joiner whose socket has begun to close is sent nothing. *)
C33_JoinerFramesInOrder ==
  JoinedReq(lastReq) =>
    LET q == lastReq
        got == FramesTo(out, q.from)
        want == <<UserJoined(q), Snapshot(q), RoomJoined(q)>>
        Passes(ev) == q.from \in wsOpen /\ ~TooLarge(ev)
    IN [i \in 1..Len(got) |-> got[i].ev] = SelectSeq(want, Passes)

(* a session has joined a room that has another open member and a history
   that fits, and has been sent the three frames *)
C33_Witness ==
  /\ JoinedReq(lastReq)
  /\ Cardinality(Range(members[lastReq.room]) \cap wsOpen) >= 2
  /\ history[lastReq.room] # <<>>
  /\ Len(FramesTo(out, lastReq.from)) = 3
  /\ Len(out) > 3

(* C34: an activity read changes no server state: the stored ring is the
   same sequence after the read as before it, and a read that directly
   follows a read of the same project returns the same sequence. *)
C34_ActivityReadChangesNothing ==
  [][LET q == lastReq'
     IN q.kind = "get-activities" =>
          /\ activities' = activities
          /\ documents' = documents
          /\ mergeLogs' = mergeLogs
          /\ (lastReq.kind = "get-activities" /\ lastReq.project = q.project)
               => httpResp'.body = httpResp.body]_vars

(* ---- client ---- *)
(* C35: retryAttempts stays within 0..5; every scheduled reconnect raises it
   by one and only a successful open lowers it, to 0, so that no more than
   5 reconnects are scheduled in a row without an open in between. *)
C35_RetriesAreBounded ==
  [][/\ retryAttempts' \in 0..5
     /\ timers' > timers => retryAttempts' = retryAttempts + 1
     /\ clientOp' = "open" => retryAttempts' = 0
     /\ retryAttempts' < retryAttempts => clientOp' = "open"]_vars

(* six sockets in a row have closed without an open: five reconnects were
   scheduled and have fired, and the last close scheduled none *)
C35_Witness ==
  /\ retryAttempts = 5
  /\ clientOp = "close"
  /\ timers = 0
  /\ Len(sockets) = 6
  /\ \A k \in DOMAIN sockets : sockets[k] = "closed"

(* C36: while the application's last call is disconnect(), no new socket is
   created: a connection is opened again only by the application's own
   connect(). *)
C36_NoReconnectAfterDisconnect ==
  [][(disconnectCalled /\ clientOp' # "connect")
       => Len(sockets') = Len(sockets)]_vars
====
